---- MODULE Spec2Model ----
(***************************************************************************)
(* The modal keyboard state machine of the vim-style widgets of            *)
(* gui_pyqt_widgets: VimList, VimMultimediaList, VimTree and VimTable.     *)
(*                                                                         *)
(* One widget instance is modelled.  Its Python attributes and the part of *)
(* the Qt item widget it drives are the fields of the record `self`; every *)
(* method is an operator from the record before the call to the record     *)
(* after it, so that a handler is the composition of the calls it makes.   *)
(*                                                                         *)
(* Text is a sequence of one-character strings, so that strip(), split()   *)
(* and join() are computed and not assumed.  None is the empty option <<>>,*)
(* a present value v is <<v>>.                                             *)
(*                                                                         *)
(* Time is counted in units of 0.5 s.  Of a start time the code only reads *)
(* time.time() - start, and only while the chord is pending, so the model  *)
(* keeps that difference (saturated just above the timeout) and 0 while    *)
(* the chord is not pending.                                               *)
(***************************************************************************)
EXTENDS Integers, Sequences, FiniteSets, TLC

\* self: the widget.  last_cmd: the last key press or timer sweep that did
\* something, and what it did (history, read by the properties only).
VARIABLES self, last_cmd

vars == <<self, last_cmd>>

(* ------------------------------ bounds -------------------------------- *)

\* Longest list the environment and the commands build up.
MaxLen == 3

\* Largest number of items of the multimedia list.
MaxLenMM == 2

\* Longest search buffer typed in search mode.
MaxSearch == 1

\* Longest text of an item, of the register and of the clipboard.
MaxText == 1

\* ----------------------------- constants ------------------------------ *\

\* 1.0 s, the delete / copy chord timeout, in units of 0.5 s.
PendingTimeout == 2

\* 0.5 s, the gg chord timeout, in units of 0.5 s.
GTimeout == 1

\* Elapsed times saturate one unit above the timeout they are compared with.
ElapsedCap == PendingTimeout + 1

GCap == GTimeout + 1

None == <<>>

Some(v) == <<v>>

IsNone(o) == o = <<>>

Min(a, b) == IF a <= b THEN a ELSE b

Max(a, b) == IF a >= b THEN a ELSE b

(* ------------------------------- text --------------------------------- *)

Whitespace == {" ", "\t", "\n"}

RECURSIVE lstrip(_)
lstrip(t) == IF t # <<>> /\ Head(t) \in Whitespace THEN lstrip(Tail(t)) ELSE t

RECURSIVE rstrip(_)
rstrip(t) ==
  IF t # <<>> /\ t[Len(t)] \in Whitespace THEN rstrip(SubSeq(t, 1, Len(t) - 1)) ELSE t

\* str.strip()
strip(t) == rstrip(lstrip(t))

\* list.insert(pos, v): pos is clamped into 0..len like Python does
\* (a negative pos counts from the end).
list_insert(l, pos, v) ==
  LET p == IF pos < 0 THEN Max(0, Len(l) + pos) ELSE Min(pos, Len(l))
  IN  SubSeq(l, 1, p) \o <<v>> \o SubSeq(l, p + 1, Len(l))

\* list.pop(i) for 0 <= i < len: the list without element i (0-based).
list_pop(l, i) == SubSeq(l, 1, i) \o SubSeq(l, i + 2, Len(l))

(* ------------------------------ events -------------------------------- *)

\* A key press: the Qt key code (the letter, "Escape", "Return", ...) and
\* whether Shift is held.
Ev(k, s) == [key |-> k, shift |-> s]

Letters ==
  {"a", "b", "c", "d", "g", "h", "i", "j", "k", "l", "n", "o", "p", "r", "v", "x", "y"}

\* The upper-case letters that occur in the texts of the model.
UpperCase == <<"A", "B">>

LowerCase == <<"a", "b">>

upper_char(c) ==
  IF \E i \in 1..Len(LowerCase) : LowerCase[i] = c
  THEN UpperCase[CHOOSE i \in 1..Len(LowerCase) : LowerCase[i] = c]
  ELSE c

lower_char(c) ==
  IF \E i \in 1..Len(UpperCase) : UpperCase[i] = c
  THEN LowerCase[CHOOSE i \in 1..Len(UpperCase) : UpperCase[i] = c]
  ELSE c

\* QKeyEvent.text() of a key press.
event_text(e) ==
  IF e.key \in Letters THEN <<IF e.shift THEN upper_char(e.key) ELSE e.key>>
  ELSE IF e.key = "/" THEN <<"/">>
  ELSE <<>>

\* The name under which a key press is remembered in last_cmd: the keys of
\* the chords, of delete and of paste by their name, every other key as "other".
EvName(e) ==
  IF e.key \in {"d", "y", "g", "p", "x"}
  THEN (IF e.shift THEN <<e.key, "shift">> ELSE <<e.key>>)
  ELSE <<"other">>

(* ======================= VimList / VimMultimediaList ==================== *)

\* The display text of a model item: the string itself in VimList,
\* item_data.get('text', '') in VimMultimediaList.
item_text(s, it) == IF s.kind = "list" THEN it ELSE it.text

\* QListWidget.clear(): no items, no current row.  The selection model is
\* reset without a signal.
lw_clear(s) == [s EXCEPT !.view = <<>>, !.currentRow = -1]

\* VimList._exit_edit_mode / VimMultimediaList._exit_edit_mode
List_exit_edit_mode(s, save) ==
  IF ~s.edit_mode THEN s
  ELSE
    LET row == s.currentRow
        has_item == 0 <= row /\ row < Len(s.view)
    IN
    IF s.kind = "list" THEN
      LET s1 == IF save /\ has_item /\ row < Len(s.items)
                THEN [s EXCEPT !.items[row + 1] = s.view[row + 1]]
                ELSE IF ~save /\ has_item
                THEN [s EXCEPT !.view[row + 1] = s.original_value]
                ELSE s
      IN [s1 EXCEPT !.edit_mode = FALSE, !.original_value = <<>>]
    ELSE
      LET s1 == IF has_item /\ s.editing
                THEN LET v == IF save THEN s.edit_value ELSE s.original_value
                     IN  [s EXCEPT !.view[row + 1] = v,
                                   !.items = IF row < Len(s.items)
                                             THEN [s.items EXCEPT ![row + 1].text = v]
                                             ELSE s.items,
                                   !.editing = FALSE]
                ELSE s
      IN [s1 EXCEPT !.edit_mode = FALSE, !.original_value = <<>>, !.edit_value = <<>>]

\* VimList._on_selection_changed
List_on_selection_changed(s) ==
  IF s.edit_mode THEN List_exit_edit_mode(s, TRUE) ELSE s

\* QListWidget.setCurrentRow(row): a row outside the widget clears the
\* current row; a change of the selected row emits itemSelectionChanged.
lw_setCurrentRow(s, row) ==
  LET r == IF 0 <= row /\ row < Len(s.view) THEN row ELSE -1
      s1 == [s EXCEPT !.currentRow = r]
  IN  IF r # s.currentRow THEN List_on_selection_changed(s1) ELSE s1

\* VimList._rebuild_list without the fallback to row 0.
List_rebuild_list_NoFallback(s) ==
  LET current_row == s.currentRow
      s1 == lw_clear(s)
      s2 == [s1 EXCEPT !.view = [i \in 1..Len(s.items) |-> item_text(s, s.items[i])]]
  IN  IF 0 <= current_row /\ current_row < Len(s2.view)
      THEN lw_setCurrentRow(s2, current_row)
      ELSE s2

\* VimList._rebuild_list
List_rebuild_list(s) ==
  LET current_row == s.currentRow
      s1 == lw_clear(s)
      s2 == [s1 EXCEPT !.view = [i \in 1..Len(s.items) |-> item_text(s, s.items[i])]]
  IN  IF 0 <= current_row /\ current_row < Len(s2.view)
      THEN lw_setCurrentRow(s2, current_row)
      ELSE IF Len(s2.view) > 0 THEN lw_setCurrentRow(s2, 0)
      ELSE s2

\* The handlers note in the field cmd what they did; the notes of one handler
\* run are moved into last_cmd when it returns.
did(s, name) == [s EXCEPT !.cmd = Append(@, name)]

\* VimList._move_up
List_move_up(s) ==
  IF s.currentRow > 0 THEN lw_setCurrentRow(s, s.currentRow - 1) ELSE s

\* _move_down that would go round from the last row to the first.
List_move_down_Wrap(s) ==
  IF Len(s.view) = 0 THEN s
  ELSE lw_setCurrentRow(s, (s.currentRow + 1) % Len(s.view))

\* VimList._move_down
List_move_down(s) ==
  IF s.currentRow < Len(s.view) - 1 THEN lw_setCurrentRow(s, s.currentRow + 1) ELSE s

\* VimList._go_to_first
List_go_to_first(s) ==
  IF Len(s.view) > 0 THEN lw_setCurrentRow(did(s, "go_to_first"), 0) ELSE s

\* VimList._go_to_last
List_go_to_last(s) ==
  IF Len(s.view) > 0 THEN lw_setCurrentRow(s, Len(s.view) - 1) ELSE s

\* VimList._enter_edit_mode.  The items of VimList are created without
\* ItemIsEditable, so QListWidget.editItem opens no editor and the Qt view
\* never enters EditingState; VimMultimediaList opens its own QLineEdit.
List_enter_edit_mode(s) ==
  LET row == s.currentRow IN
  IF s.kind = "list" THEN
    IF row >= 0
    THEN [s EXCEPT !.edit_mode = TRUE,
                   !.original_value = IF row < Len(s.view) THEN s.view[row + 1] ELSE @]
    ELSE s
  ELSE
    IF row >= 0 /\ row < Len(s.items)
    THEN [s EXCEPT !.edit_mode = TRUE, !.original_value = s.view[row + 1],
                   !.edit_value = s.view[row + 1], !.editing = TRUE]
    ELSE s

\* self.item_added.emit(index, item): the emissions of one handler run are
\* collected in the field emitted.
item_added(s, index, item) == [s EXCEPT !.emitted = Append(@, <<index, item>>)]

\* VimList.add_item / VimMultimediaList.add_item (index None: append).  The
\* handlers of VimList that insert, rebuild and emit by themselves are
\* written with it as well.
List_add_item(s, item, index) ==
  LET s1 == IF IsNone(index)
            THEN [s EXCEPT !.items = Append(@, item)]
            ELSE [s EXCEPT !.items = list_insert(@, index[1], item)]
      at == IF IsNone(index) THEN Len(s1.items) - 1 ELSE index[1]
  IN  item_added(List_rebuild_list(s1), at, item)

\* VimList.update_item / VimMultimediaList.update_item (text given)
List_update_item(s, index, value) ==
  IF 0 <= index /\ index < Len(s.items)
  THEN List_rebuild_list(
         IF s.kind = "list" THEN [s EXCEPT !.items[index + 1] = value]
         ELSE [s EXCEPT !.items[index + 1].text = value])
  ELSE s

\* self.item_deleted.emit(index, item): the emissions of one handler run are
\* collected in the field deleted.
item_deleted(s, index, item) == [s EXCEPT !.deleted = Append(@, <<index, item>>)]

\* VimList.remove_item / VimMultimediaList.remove_item
List_remove_item(s, index) ==
  IF 0 <= index /\ index < Len(s.items)
  THEN item_deleted(List_rebuild_list([s EXCEPT !.items = list_pop(@, index)]),
                    index, s.items[index + 1])
  ELSE s

\* VimList.set_items
List_set_items(s, new_items) == List_rebuild_list([s EXCEPT !.items = new_items])

\* VimList.clear_items / VimMultimediaList.clear_items
List_clear_items(s) == lw_clear([s EXCEPT !.items = <<>>])

\* The item a dialog text or a clipboard text becomes: the string in VimList,
\* {'text': text, 'pixmap': None, 'id': None} in VimMultimediaList.
text_item(s, t) == IF s.kind = "list" THEN t ELSE [text |-> t, id |-> 0]

\* _add_item_below that would append the new item to the model.
List_add_item_below_Append(s, inp) ==
  LET new_item == strip(inp.value)
  IN  IF inp.accepted /\ new_item # <<>>
      THEN LET s1 == List_add_item(did(s, "add_item"), text_item(s, new_item), None)
           IN  lw_setCurrentRow(s1, Len(s1.view) - 1)
      ELSE s

\* VimList._add_item_below / VimMultimediaList._add_item_below.
\* inp is what the modal input dialog returns.
List_add_item_below(s, inp) ==
  LET current_row == s.currentRow
      insert_pos == IF current_row >= 0 THEN current_row + 1 ELSE Len(s.items)
      new_item == strip(inp.value)
  IN  IF inp.accepted /\ new_item # <<>>
      THEN LET s1 == List_add_item(did(s, "add_item"), text_item(s, new_item),
                                   Some(insert_pos))
           IN  IF insert_pos < Len(s1.view) THEN lw_setCurrentRow(s1, insert_pos) ELSE s1
      ELSE s

\* VimList._add_item_above / VimMultimediaList._add_item_above
List_add_item_above(s, inp) ==
  LET current_row == s.currentRow
      insert_pos == IF current_row >= 0 THEN current_row ELSE 0
      new_item == strip(inp.value)
  IN  IF inp.accepted /\ new_item # <<>>
      THEN lw_setCurrentRow(
             List_add_item(did(s, "add_item"), text_item(s, new_item), Some(insert_pos)),
             insert_pos)
      ELSE s

\* VimList._delete_current_item that keeps the chord pending.
List_delete_current_item_KeepPending(s) ==
  LET current_row == s.currentRow IN
  IF current_row >= 0 /\ Len(s.items) > 0
  THEN LET s1 == List_remove_item(did(s, "delete_current_item"), current_row)
           row == IF current_row >= Len(s1.view) THEN Len(s1.view) - 1 ELSE current_row
       IN  IF row >= 0 THEN lw_setCurrentRow(s1, row) ELSE s1
  ELSE s

\* _delete_current_item without the adjustment of the selection after the
\* rebuild.
List_delete_current_item_NoClamp(s) ==
  LET s0 == [s EXCEPT !.pending_delete = FALSE, !.delete_elapsed = 0]
      current_row == s0.currentRow
  IN
  IF current_row >= 0 /\ Len(s0.items) > 0
  THEN List_remove_item(did(s0, "delete_current_item"), current_row)
  ELSE s0

\* VimList._delete_current_item / VimMultimediaList._delete_current_item:
\* VimList pops, rebuilds, adjusts the selection and then emits item_deleted
\* with the adjusted row; VimMultimediaList calls remove_item.
List_delete_current_item(s) ==
  LET s0 == [s EXCEPT !.pending_delete = FALSE, !.delete_elapsed = 0]
      current_row == s0.currentRow
  IN
  IF current_row >= 0 /\ Len(s0.items) > 0
  THEN LET s1 == IF s0.kind = "list"
                 THEN List_rebuild_list([did(s0, "delete_current_item") EXCEPT
                                           !.items = list_pop(@, current_row)])
                 ELSE List_remove_item(did(s0, "delete_current_item"), current_row)
           row == IF current_row >= Len(s1.view) THEN Len(s1.view) - 1 ELSE current_row
           s2 == IF row >= 0 THEN lw_setCurrentRow(s1, row) ELSE s1
       IN  IF s0.kind = "list" THEN item_deleted(s2, row, s0.items[current_row + 1])
           ELSE s2
  ELSE s0

\* VimList._copy_current_item / VimMultimediaList._copy_current_item
List_copy_current_item(s) ==
  LET s0 == [s EXCEPT !.pending_copy = FALSE, !.copy_elapsed = 0]
      current_row == s0.currentRow
  IN
  IF 0 <= current_row /\ current_row < Len(s0.items)
  THEN [did(s0, "copy_current_item") EXCEPT
          !.copied_item = Some(s0.items[current_row + 1]),
          !.clipboard = item_text(s0, s0.items[current_row + 1])]
  ELSE s0

\* The first part of _paste_below that takes the clipboard text as it is.
List_paste_source_NoStrip(s) ==
  IF ~IsNone(s.copied_item) THEN s.copied_item
  ELSE IF s.clipboard # <<>> THEN Some(text_item(s, s.clipboard))
  ELSE None

\* The first part of _paste_below / _paste_above: an empty register is
\* filled from the stripped system clipboard text; <<>> when there is
\* nothing to paste.
List_paste_source(s) ==
  IF ~IsNone(s.copied_item) THEN s.copied_item
  ELSE IF strip(s.clipboard) # <<>> THEN Some(text_item(s, strip(s.clipboard)))
  ELSE None

\* _paste_below that puts the copy at the end of the list, wherever the
\* cursor is.
List_paste_below_AtEnd(s) ==
  LET src == List_paste_source(s) IN
  IF IsNone(src) THEN did(s, "paste_nothing")
  ELSE
    LET s0 == [s EXCEPT !.copied_item = src]
        insert_pos == Len(s0.items)
        s1 == List_add_item(did(s0, "paste_below"), src[1], Some(insert_pos))
    IN  IF insert_pos < Len(s1.view) THEN lw_setCurrentRow(s1, insert_pos) ELSE s1

\* VimList._paste_below / VimMultimediaList._paste_below
List_paste_below(s) ==
  LET src == List_paste_source(s) IN
  IF IsNone(src) THEN did(s, "paste_nothing")
  ELSE
    LET s0 == [s EXCEPT !.copied_item = src]
        current_row == s0.currentRow
        insert_pos == IF current_row >= 0 THEN current_row + 1 ELSE Len(s0.items)
        s1 == List_add_item(did(s0, "paste_below"), src[1], Some(insert_pos))
    IN  IF insert_pos < Len(s1.view) THEN lw_setCurrentRow(s1, insert_pos) ELSE s1

\* VimList._paste_above / VimMultimediaList._paste_above
List_paste_above(s) ==
  LET src == List_paste_source(s) IN
  IF IsNone(src) THEN did(s, "paste_nothing")
  ELSE
    LET s0 == [s EXCEPT !.copied_item = src]
        current_row == s0.currentRow
        insert_pos == IF current_row >= 0 THEN current_row ELSE 0
    IN  lw_setCurrentRow(List_add_item(did(s0, "paste_above"), src[1], Some(insert_pos)),
                         insert_pos)

\* VimList._enter_visual_mode
List_enter_visual_mode(s) ==
  IF s.currentRow >= 0
  THEN [s EXCEPT !.visual_mode = TRUE, !.visual_start = s.currentRow,
                 !.visual_end = s.currentRow]
  ELSE s

\* _exit_visual_mode that leaves the range as it was.
List_exit_visual_mode_KeepRange(s) == [s EXCEPT !.visual_mode = FALSE]

\* VimList._exit_visual_mode
List_exit_visual_mode(s) ==
  [s EXCEPT !.visual_mode = FALSE, !.visual_start = -1, !.visual_end = -1]

\* VimList._visual_move_up
List_visual_move_up(s) ==
  IF s.currentRow > 0
  THEN LET new_row == s.currentRow - 1
       IN  [lw_setCurrentRow(s, new_row) EXCEPT !.visual_end = new_row]
  ELSE s

\* VimList._visual_move_down
List_visual_move_down(s) ==
  IF s.currentRow < Len(s.view) - 1
  THEN LET new_row == s.currentRow + 1
       IN  [lw_setCurrentRow(s, new_row) EXCEPT !.visual_end = new_row]
  ELSE s

\* '\n'.join(texts)
RECURSIVE join_lines(_)
join_lines(texts) ==
  IF texts = <<>> THEN <<>>
  ELSE IF Len(texts) = 1 THEN texts[1]
  ELSE texts[1] \o <<"\n">> \o join_lines(Tail(texts))

\* VimList._copy_visual_selection / VimMultimediaList._copy_visual_selection
List_copy_visual_selection(s) ==
  IF ~s.visual_mode THEN s
  ELSE
    LET start == Min(s.visual_start, s.visual_end)
        end == Max(s.visual_start, s.visual_end)
        last == Min(end, Len(s.items) - 1)
        selected_items == [i \in 1..(last - start + 1) |-> item_text(s, s.items[start + i])]
    IN  IF last >= start
        THEN [did(s, "copy_visual_selection") EXCEPT
                !.copied_item = Some(text_item(s, join_lines(selected_items))),
                !.clipboard = join_lines(selected_items)]
        ELSE s

\* The loop of _delete_visual_selection from row down to start:
\* VimList pops and rebuilds once after the loop, VimMultimediaList calls
\* remove_item, which rebuilds each time.
RECURSIVE List_delete_rows(_, _, _)
List_delete_rows(s, row, start) ==
  IF row < start THEN s
  ELSE IF row < Len(s.items)
  THEN List_delete_rows(
         IF s.kind = "list"
         THEN item_deleted([s EXCEPT !.items = list_pop(@, row)], row, s.items[row + 1])
         ELSE List_remove_item(s, row),
         row - 1, start)
  ELSE List_delete_rows(s, row - 1, start)

\* _delete_visual_selection that takes the anchor as the first row of the
\* range and the current position as the last.
List_delete_visual_selection_Forward(s) ==
  IF ~s.visual_mode THEN s
  ELSE
    LET start == s.visual_start
        end == s.visual_end
        s1 == List_delete_rows(did(s, "delete_visual_selection"), end, start)
        s2 == IF s.kind = "list" THEN List_rebuild_list(s1) ELSE s1
    IN  IF start < Len(s2.view) THEN lw_setCurrentRow(s2, start)
        ELSE IF Len(s2.view) > 0 THEN lw_setCurrentRow(s2, Len(s2.view) - 1)
        ELSE s2

\* VimList._delete_visual_selection / VimMultimediaList._delete_visual_selection
List_delete_visual_selection(s) ==
  IF ~s.visual_mode THEN s
  ELSE
    LET start == Min(s.visual_start, s.visual_end)
        end == Max(s.visual_start, s.visual_end)
        s1 == List_delete_rows(did(s, "delete_visual_selection"), end, start)
        s2 == IF s.kind = "list" THEN List_rebuild_list(s1) ELSE s1
    IN  IF start < Len(s2.view) THEN lw_setCurrentRow(s2, start)
        ELSE IF Len(s2.view) > 0 THEN lw_setCurrentRow(s2, Len(s2.view) - 1)
        ELSE s2

\* VimList._handle_visual_mode_key
List_handle_visual_mode_key(s, e) ==
  CASE e.key = "j" -> List_visual_move_down(s)
    [] e.key = "k" -> List_visual_move_up(s)
    [] e.key = "y" -> List_exit_visual_mode(List_copy_visual_selection(s))
    [] e.key \in {"d", "x"} -> List_exit_visual_mode(List_delete_visual_selection(s))
    [] OTHER -> s

(* str.lower() and the substring test of the search *)

\* str.lower()
lower(t) == [i \in 1..Len(t) |-> lower_char(t[i])]

\* sub in t
contains(t, sub) ==
  \E i \in 0..(Len(t) - Len(sub)) : SubSeq(t, i + 1, i + Len(sub)) = sub

\* VimList._enter_search_mode
enter_search_mode(s) ==
  [s EXCEPT !.search_mode = TRUE, !.search_text = <<>>, !.search_results = <<>>,
            !.current_search_index = -1]

\* VimList._exit_search_mode
exit_search_mode(s) ==
  [s EXCEPT !.search_mode = FALSE, !.search_text = <<>>, !.search_results = <<>>,
            !.current_search_index = -1]

\* The indices i < n of the items whose lower-cased text contains sub, in order.
RECURSIVE matches(_, _, _, _)
matches(s, sub, i, n) ==
  IF i >= n THEN <<>>
  ELSE (IF contains(lower(item_text(s, s.items[i + 1])), sub) THEN <<i>> ELSE <<>>)
       \o matches(s, sub, i + 1, n)

\* _execute_search that would move the cursor to the last match.
List_execute_search_LastMatch(s) ==
  IF s.search_text = <<>> THEN exit_search_mode(s)
  ELSE
    LET results == matches(s, lower(s.search_text), 0, Len(s.items))
    IN  IF results # <<>>
        THEN exit_search_mode(lw_setCurrentRow(did(s, "search_found"),
                                               results[Len(results)]))
        ELSE exit_search_mode(did(s, "search_no_results"))

\* VimList._execute_search / VimMultimediaList._execute_search
List_execute_search(s) ==
  IF s.search_text = <<>> THEN exit_search_mode(s)
  ELSE
    LET results == matches(s, lower(s.search_text), 0, Len(s.items))
        s1 == [s EXCEPT !.search_results = results]
        s2 == IF results # <<>>
              THEN lw_setCurrentRow([did(s1, "search_found") EXCEPT !.current_search_index = 0],
                                    results[1])
              ELSE did(s1, "search_no_results")
    IN  exit_search_mode(s2)

\* VimList._search_next
List_search_next(s) ==
  IF s.search_results = <<>> THEN s
  ELSE LET i == (s.current_search_index + 1) % Len(s.search_results)
       IN  lw_setCurrentRow([s EXCEPT !.current_search_index = i], s.search_results[i + 1])

\* VimList._search_previous
List_search_previous(s) ==
  IF s.search_results = <<>> THEN s
  ELSE LET i == (s.current_search_index - 1) % Len(s.search_results)
       IN  lw_setCurrentRow([s EXCEPT !.current_search_index = i], s.search_results[i + 1])

\* _handle_search_key that takes d as the first key of the delete chord.
handle_search_key_Chord(s, e, executed) ==
  CASE e.key = "Escape" -> exit_search_mode(s)
    [] e.key = "Return" -> executed
    [] e.key = "Backspace" ->
         IF s.search_text # <<>>
         THEN [s EXCEPT !.search_text = SubSeq(@, 1, Len(@) - 1)]
         ELSE exit_search_mode(s)
    [] e.key = "d" -> [s EXCEPT !.pending_delete = TRUE]
    [] OTHER -> [s EXCEPT !.search_text = @ \o event_text(e)]

\* VimList._handle_search_key; executed is the widget after its
\* _execute_search.
handle_search_key(s, e, executed) ==
  CASE e.key = "Escape" -> exit_search_mode(s)
    [] e.key = "Return" -> executed
    [] e.key = "Backspace" ->
         IF s.search_text # <<>>
         THEN [s EXCEPT !.search_text = SubSeq(@, 1, Len(@) - 1)]
         ELSE exit_search_mode(s)
    [] OTHER -> [s EXCEPT !.search_text = @ \o event_text(e)]

\* VimList._refresh_list
List_refresh_list(s) ==
  LET current_row == s.currentRow
      s1 == List_rebuild_list(s)
  IN  IF 0 <= current_row /\ current_row < Len(s1.view)
      THEN lw_setCurrentRow(s1, current_row)
      ELSE s1

\* The timeout check left out: an expired chord stays pending.
expire_pending_Never(s) == s

\* The timeout check at the head of _handle_key_event: an expired chord is
\* dropped before the key is looked at.
expire_pending(s) ==
  LET s1 == IF s.pending_delete /\ s.delete_elapsed > PendingTimeout
            THEN [did(s, "expire_delete") EXCEPT !.pending_delete = FALSE,
                                                 !.delete_elapsed = 0]
            ELSE s
  IN  IF s1.pending_copy /\ s1.copy_elapsed > PendingTimeout
      THEN [did(s1, "expire_copy") EXCEPT !.pending_copy = FALSE, !.copy_elapsed = 0]
      ELSE s1

\* The 0.5 s window left out: any g after a first g goes to the first item.
g_key_NoWindow(s, e, at_first, at_last) ==
  IF e.shift THEN at_last
  ELSE IF s.pending_g >= 0
       THEN [at_first EXCEPT !.pending_g = -1]
       ELSE [did(s, "start_g") EXCEPT !.pending_g = 0]

\* The g branch of _handle_navigation_key: Shift+G goes to the last item,
\* a second g less than 0.5 s after the first goes to the first item.
\* at_first and at_last are the widget after _go_to_first and _go_to_last.
g_key(s, e, at_first, at_last) ==
  IF e.shift THEN at_last
  ELSE IF s.pending_g >= 0 /\ s.pending_g < GTimeout
       THEN [at_first EXCEPT !.pending_g = -1]
       ELSE [did(s, "start_g") EXCEPT !.pending_g = 0]

\* pending_delete = True; delete_start_time = time.time()
start_delete(s) ==
  [did(s, "start_delete") EXCEPT !.pending_delete = TRUE, !.delete_elapsed = 0]

\* pending_copy = True; copy_start_time = time.time()
start_copy(s) ==
  [did(s, "start_copy") EXCEPT !.pending_copy = TRUE, !.copy_elapsed = 0]

\* A cancel that leaves the delete chord pending.
cancel_delete_Keep(s) == s

cancel_delete(s) == [s EXCEPT !.pending_delete = FALSE, !.delete_elapsed = 0]

\* A cancel that leaves the copy chord pending.
cancel_copy_Keep(s) == s

cancel_copy(s) == [s EXCEPT !.pending_copy = FALSE, !.copy_elapsed = 0]

\* VimList._handle_navigation_key / VimMultimediaList._handle_navigation_key
List_handle_navigation_key(s, e, inp) ==
  IF e.key = "Escape" /\ s.visual_mode THEN List_exit_visual_mode(s)
  ELSE IF e.key = "Escape" /\ s.pending_delete THEN cancel_delete(s)
  ELSE IF e.key = "Escape" /\ s.pending_copy THEN cancel_copy(s)
  ELSE IF s.visual_mode THEN List_handle_visual_mode_key(s, e)
  ELSE IF s.pending_delete THEN
    IF e.key = "d" THEN List_delete_current_item(s) ELSE cancel_delete(s)
  ELSE IF s.pending_copy THEN
    IF e.key = "y" THEN List_copy_current_item(s) ELSE cancel_copy(s)
  ELSE
    CASE e.key = "j" -> List_move_down(s)
      [] e.key = "k" -> List_move_up(s)
      [] e.key = "g" -> g_key(s, e, List_go_to_first(s), List_go_to_last(s))
      [] e.key = "i" -> List_enter_edit_mode(s)
      [] e.key = "v" -> List_enter_visual_mode(s)
      [] e.key = "o" -> IF e.shift THEN List_add_item_above(s, inp)
                        ELSE List_add_item_below(s, inp)
      [] e.key = "d" -> start_delete(s)
      [] e.key = "x" -> List_delete_current_item(s)
      [] e.key = "y" -> start_copy(s)
      [] e.key = "p" -> IF e.shift THEN List_paste_above(s) ELSE List_paste_below(s)
      [] e.key = "/" -> enter_search_mode(s)
      [] e.key = "n" -> IF e.shift THEN List_search_previous(s) ELSE List_search_next(s)
      [] e.key = "r" -> List_refresh_list(s)
      [] OTHER -> s

\* VimList._handle_key_event / VimMultimediaList._handle_key_event
List_handle_key_event(s, e, inp) ==
  IF s.kind = "multimedia" /\ s.edit_mode THEN
    CASE e.key = "Escape" -> List_exit_edit_mode(s, FALSE)
      [] e.key = "Return" -> List_exit_edit_mode(s, TRUE)
      [] OTHER -> s
  ELSE IF s.search_mode THEN handle_search_key(s, e, List_execute_search(s))
  ELSE List_handle_navigation_key(expire_pending(s), e, inp)

\* The sweep of _pending_g at the end of _check_pending_operations.
sweep_pending_g(s) ==
  IF s.pending_g > GTimeout THEN [s EXCEPT !.pending_g = -1] ELSE s

\* _check_pending_operations that commits the timed-out delete the way it
\* commits the timed-out copy.
List_check_pending_operations_Commit(s) ==
  LET s1 == IF s.pending_delete /\ s.delete_elapsed > PendingTimeout
            THEN cancel_delete(List_delete_current_item(did(s, "sweep_delete")))
            ELSE s
      s2 == IF s1.pending_copy /\ s1.copy_elapsed > PendingTimeout
            THEN cancel_copy(List_copy_current_item(did(s1, "sweep_copy")))
            ELSE s1
  IN  sweep_pending_g(s2)

\* VimList._check_pending_operations, the slot of the 100 ms timer.
List_check_pending_operations(s) ==
  LET s1 == IF s.pending_delete /\ s.delete_elapsed > PendingTimeout
            THEN did(cancel_delete(s), "sweep_delete")
            ELSE s
      s2 == IF s1.pending_copy /\ s1.copy_elapsed > PendingTimeout
            THEN cancel_copy(List_copy_current_item(did(s1, "sweep_copy")))
            ELSE s1
  IN  sweep_pending_g(s2)

\* time.time() grows by 0.5 s: every running chord is 0.5 s older.
time_passes(s) ==
  [s EXCEPT !.delete_elapsed = IF s.pending_delete THEN Min(@ + 1, ElapsedCap) ELSE @,
            !.copy_elapsed = IF s.pending_copy THEN Min(@ + 1, ElapsedCap) ELSE @,
            !.pending_g = IF @ >= 0 THEN Min(@ + 1, GCap) ELSE @]

(* ------------------- the list widgets as a state machine ---------------- *)

Texts == {<<"a">>, <<"b">>}

\* What the modal input dialog returns: rejected, or accepted with a text.
DialogInputs ==
  { [accepted |-> FALSE, value |-> <<>>],
    [accepted |-> TRUE, value |-> <<" ">>],
    [accepted |-> TRUE, value |-> <<"b", " ">>] }

\* The text on the system clipboard when the widget is created.
ClipboardTexts == { <<>>, <<" ", "a">> }

NoInput == [accepted |-> FALSE, value |-> <<>>]

ListKeys ==
  { Ev(k, FALSE) : k \in {"j", "k", "g", "i", "v", "o", "d", "x", "y", "p", "/", "n",
                          "r", "a", "Escape", "Return", "Backspace"} }
  \cup { Ev(k, TRUE) : k \in {"g", "o", "p", "n"} }

\* The keys typed into the search buffer.
SearchKeys ==
  { Ev(k, FALSE) : k \in {"a", "d", "Escape", "Return", "Backspace"} }
  \cup { Ev("a", TRUE) }

\* The texts of the model stay within the bounds.
max_len(s) == IF s.kind = "multimedia" THEN MaxLenMM ELSE MaxLen

ListBounded(s) ==
  /\ Len(s.items) <= max_len(s)
  /\ \A i \in 1..Len(s.items) : Len(item_text(s, s.items[i])) <= MaxText
  /\ IF IsNone(s.copied_item) THEN TRUE
     ELSE Len(item_text(s, s.copied_item[1])) <= MaxText
  /\ Len(s.clipboard) <= MaxText + 1
  /\ Len(s.search_text) <= MaxSearch

\* VimList.__init__ / VimMultimediaList.__init__ up to _setup_ui
List_fresh(kind) ==
  [ kind |-> kind, items |-> <<>>, view |-> <<>>, currentRow |-> -1,
    edit_mode |-> FALSE, original_value |-> <<>>, edit_value |-> <<>>,
    editing |-> FALSE,
    pending_delete |-> FALSE, delete_elapsed |-> 0,
    pending_copy |-> FALSE, copy_elapsed |-> 0, pending_g |-> -1,
    copied_item |-> None, clipboard |-> <<>>,
    visual_mode |-> FALSE, visual_start |-> -1, visual_end |-> -1,
    search_mode |-> FALSE, search_text |-> <<>>, search_results |-> <<>>,
    current_search_index |-> -1, cmd |-> <<>>, emitted |-> <<>>, deleted |-> <<>> ]

\* VimList(items): self.items = items or [], then _setup_ui ends with
\* _rebuild_list.  VimMultimediaList() starts empty.
List_init(kind, items) == List_rebuild_list([List_fresh(kind) EXCEPT !.items = items])

NoCmd == [ev |-> <<"none">>, cmd |-> <<>>]

\* The widget after a handler, and the history after it: cmd is the note the
\* handler left about what it did and emitted the signals it sent; the widget
\* itself keeps neither.
settled(s) ==
  IF s.kind \in {"list", "multimedia"}
  THEN [s EXCEPT !.cmd = <<>>, !.emitted = <<>>, !.deleted = <<>>]
  ELSE [s EXCEPT !.cmd = <<>>]

noted(ev, s) == IF s.cmd = <<>> THEN last_cmd ELSE [ev |-> ev, cmd |-> s.cmd]

\* The history after a call of the public API.
ApiCmd == [ev |-> <<"api">>, cmd |-> <<"api">>]

InitList ==
  /\ \E kind \in {"list", "multimedia"} :
       \E items \in {<<>>, <<<<"a">>, <<"b">>>>} :
         \E clip \in ClipboardTexts :
           /\ kind = "multimedia" => items = <<>>
           /\ self = [List_init(kind, items) EXCEPT !.clipboard = clip]
  /\ last_cmd = NoCmd

IsList == self.kind \in {"list", "multimedia"}

\* A key press delivered to the list widget.
ListKey ==
  /\ IsList
  /\ \E e \in (IF self.search_mode THEN SearchKeys ELSE ListKeys) :
     \E inp \in (IF e.key = "o" THEN DialogInputs ELSE {NoInput}) :
       LET s1 == List_handle_key_event(self, e, inp) IN
       /\ ListBounded(s1)
       /\ self' = settled(s1)
       /\ last_cmd' = [ev |-> EvName(e), cmd |-> s1.cmd]

\* The user types in the QLineEdit of VimMultimediaList: _on_text_changed.
ListEditText ==
  /\ IsList /\ self.kind = "multimedia" /\ self.edit_mode /\ self.editing
  /\ \E t \in Texts : self' = [self EXCEPT !.edit_value = t]
  /\ UNCHANGED last_cmd

\* The 100 ms QTimer fires.
ListTick ==
  /\ IsList
  /\ LET s1 == List_check_pending_operations(self) IN
       /\ self' = settled(s1)
       /\ last_cmd' = noted(<<"tick">>, s1)

\* 0.5 s pass.
ListTime ==
  /\ IsList
  /\ self' = time_passes(self)
  /\ UNCHANGED last_cmd

ListSetItems ==
  /\ IsList /\ self.kind = "list"
  /\ \E items \in {<<>>, <<<<"b">>, <<"a">>>>} :
       self' = List_set_items(self, items)
  /\ last_cmd' = ApiCmd

ListAddItem ==
  /\ IsList /\ Len(self.items) < max_len(self)
  /\ \E t \in Texts : \E index \in {None} \cup {Some(i) : i \in 0..Len(self.items)} :
       self' = settled(List_add_item(self, text_item(self, t), index))
  /\ last_cmd' = ApiCmd

ListUpdateItem ==
  /\ IsList
  /\ \E t \in Texts : \E index \in -1..Len(self.items) :
       self' = List_update_item(self, index, t)
  /\ last_cmd' = ApiCmd

ListRemoveItem ==
  /\ IsList
  /\ \E index \in -1..Len(self.items) :
       self' = settled(List_remove_item(self, index))
  /\ last_cmd' = ApiCmd

ListClearItems ==
  /\ IsList
  /\ self' = List_clear_items(self)
  /\ last_cmd' = ApiCmd

NextList ==
  \/ ListKey
  \/ ListEditText
  \/ ListTick
  \/ ListTime
  \/ ListSetItems
  \/ ListAddItem
  \/ ListUpdateItem
  \/ ListRemoveItem
  \/ ListClearItems

SpecList == InitList /\ [][NextList]_vars

(* ================================ VimTree ================================ *)

(* The QTreeWidget is a forest: a sequence of nodes, a node being            *)
(* [text, expanded, children].  An item is named by its path, the sequence   *)
(* of 1-based child positions from the root level down; <<>> is "no item"    *)
(* (and, as a parent, the invisible root).  Dangling is the current index    *)
(* left behind by setCurrentItem on an item removed from the tree.           *)

Dangling == <<0>>

tree_node(text) == [text |-> text, expanded |-> FALSE, children |-> <<>>]

parent_path(p) == SubSeq(p, 1, Len(p) - 1)

is_prefix(p, q) == Len(p) <= Len(q) /\ SubSeq(q, 1, Len(p)) = p

\* QTreeWidgetItem at path p
RECURSIVE get_node(_, _)
get_node(f, p) == IF Len(p) = 1 THEN f[p[1]] ELSE get_node(f[p[1]].children, Tail(p))

\* The children of the item at p (of the invisible root for <<>>).
children_of(f, p) == IF p = <<>> THEN f ELSE get_node(f, p).children

RECURSIVE put_children(_, _, _)
put_children(f, p, c) ==
  IF p = <<>> THEN c
  ELSE [f EXCEPT ![p[1]].children = put_children(f[p[1]].children, Tail(p), c)]

RECURSIVE put_node(_, _, _)
put_node(f, p, n) ==
  IF Len(p) = 1 THEN [f EXCEPT ![p[1]] = n]
  ELSE [f EXCEPT ![p[1]].children = put_node(f[p[1]].children, Tail(p), n)]

\* QTreeWidgetItem.setExpanded
set_expanded(f, p, b) == put_node(f, p, [get_node(f, p) EXCEPT !.expanded = b])

\* QTreeView.scrollTo expands every ancestor of the item it scrolls to.
RECURSIVE expand_ancestors(_, _)
expand_ancestors(f, p) ==
  IF Len(p) <= 1 THEN f
  ELSE [f EXCEPT ![p[1]] = [@ EXCEPT !.expanded = TRUE,
                                     !.children = expand_ancestors(@, Tail(p))]]

\* The items the view shows, top to bottom.
RECURSIVE visible_from(_, _, _)
visible_from(f, prefix, i) ==
  IF i > Len(f) THEN <<>>
  ELSE <<prefix \o <<i>>>>
       \o (IF f[i].expanded THEN visible_from(f[i].children, prefix \o <<i>>, 1) ELSE <<>>)
       \o visible_from(f, prefix, i + 1)

\* QTreeWidgetItemIterator: every item, parents before children.
RECURSIVE all_from(_, _, _)
all_from(f, prefix, i) ==
  IF i > Len(f) THEN <<>>
  ELSE <<prefix \o <<i>>>> \o all_from(f[i].children, prefix \o <<i>>, 1)
       \o all_from(f, prefix, i + 1)

all_items(s) == all_from(s.roots, <<>>, 1)

in_tree(s, p) == \E i \in 1..Len(all_items(s)) : all_items(s)[i] = p

position(seq, x) ==
  IF \E i \in 1..Len(seq) : seq[i] = x THEN CHOOSE i \in 1..Len(seq) : seq[i] = x ELSE 0

\* QTreeWidget.itemBelow: an item the view does not show has view index -1,
\* so the item "below" it is the first one.
itemBelow(s, p) ==
  LET v == visible_from(s.roots, <<>>, 1)
      i == position(v, p)
  IN  IF i + 1 <= Len(v) THEN v[i + 1] ELSE <<>>

\* QTreeWidget.itemAbove
itemAbove(s, p) ==
  LET v == visible_from(s.roots, <<>>, 1)
      i == position(v, p)
  IN  IF i - 1 >= 1 THEN v[i - 1] ELSE <<>>

\* VimTree._exit_edit_mode
Tree_exit_edit_mode(s, save) ==
  IF ~s.edit_mode THEN s
  ELSE
    LET new_value == IF IsNone(s.current_edit_value)
                     THEN get_node(s.roots, s.current).text
                     ELSE s.current_edit_value[1]
        s1 == IF in_tree(s, s.current) /\ ~save
              THEN [s EXCEPT !.roots = put_node(@, s.current,
                        [get_node(@, s.current) EXCEPT !.text = s.original_value])]
              ELSE IF in_tree(s, s.current) /\ s.original_value # new_value
              THEN did(s, "node_edited")
              ELSE s
    IN  [s1 EXCEPT !.edit_mode = FALSE, !.original_value = <<>>,
                   !.current_edit_value = None]

\* VimTree._on_selection_changed
Tree_on_selection_changed(s) ==
  IF s.edit_mode THEN Tree_exit_edit_mode(s, TRUE) ELSE s

\* QTreeWidget.setCurrentItem: the view scrolls to the new current item.
setCurrentItem(s, p) ==
  LET s1 == [s EXCEPT !.current = p,
                      !.roots = IF p = Dangling THEN @ ELSE expand_ancestors(@, p)]
  IN  IF p # s.current THEN Tree_on_selection_changed(s1) ELSE s1

\* Where the item at q is after the item at p has left the tree.
after_removal(q, p) ==
  IF q = <<>> \/ q = Dangling THEN q
  ELSE IF is_prefix(p, q) THEN Dangling
  ELSE IF Len(q) >= Len(p) /\ is_prefix(parent_path(p), q) /\ q[Len(p)] > p[Len(p)]
  THEN [q EXCEPT ![Len(p)] = @ - 1]
  ELSE q

\* Where the item at q is after an item was inserted under parent at pos.
after_insertion(q, parent, pos) ==
  IF q = <<>> \/ q = Dangling THEN q
  ELSE IF Len(q) > Len(parent) /\ is_prefix(parent, q) /\ q[Len(parent) + 1] >= pos
  THEN [q EXCEPT ![Len(parent) + 1] = @ + 1]
  ELSE q

\* QAbstractItemView.rowsAboutToBeRemoved in SingleSelection mode: when the
\* current row itself is removed the current index moves to the next
\* sibling, else to the previous one, else to the parent item; a current
\* index below the removed row becomes invalid.
current_after_removal(s, p) ==
  LET q == s.current
      siblings == children_of(s.roots, parent_path(p))
      idx == p[Len(p)]
  IN  IF q = p THEN
        IF Len(siblings) <= 1 THEN parent_path(p)
        ELSE IF idx < Len(siblings) THEN p
        ELSE [p EXCEPT ![Len(p)] = idx - 1]
      ELSE IF q # Dangling /\ is_prefix(p, q) THEN <<>>
      ELSE after_removal(q, p)

\* VimTree.remove_node (item given by its path)
Tree_remove_node(s, p) ==
  IF ~in_tree(s, p) THEN s
  ELSE
    LET parent == parent_path(p)
        c == current_after_removal(s, p)
        s1 == [s EXCEPT !.roots = put_children(@, parent,
                                    list_pop(children_of(@, parent), p[Len(p)] - 1)),
                        !.current = c]
    IN  IF s.current # Dangling /\ s.current # <<>> /\ is_prefix(p, s.current)
        THEN Tree_on_selection_changed(s1)
        ELSE s1

\* VimTree.add_child_node: the new item is appended to the parent's children
\* (to the root level for None) and node_added is emitted.
Tree_add_child_node(s, parent, node) ==
  did([s EXCEPT !.roots = put_children(@, parent, Append(children_of(@, parent), node))],
      "node_added")

new_child_path(s, parent) == parent \o <<Len(children_of(s.roots, parent)) + 1>>

\* VimTree.add_sibling_node
Tree_add_sibling_node(s, ref, node, above) ==
  LET parent == parent_path(ref)
      insert_index == IF above THEN ref[Len(ref)] - 1 ELSE ref[Len(ref)]
  IN  did([s EXCEPT !.roots = put_children(@, parent,
                                list_insert(children_of(@, parent), insert_index, node)),
                    !.current = after_insertion(@, parent, insert_index + 1)],
          "node_added")

\* What a use of the dangling current item does: the freed QTreeWidgetItem may
\* crash the process, or its memory may still answer as if nothing happened,
\* as an item outside the tree, or as the first item.
stale(s, ub) ==
  CASE ub = "crash" -> [s EXCEPT !.crashed = TRUE, !.cmd = <<"crash">>]
    [] ub = "none" -> [s EXCEPT !.current = <<>>]
    [] ub = "first" -> [s EXCEPT !.current = IF Len(s.roots) > 0 THEN <<1>> ELSE <<>>]
    [] OTHER -> s

\* tree_widget.currentItem() followed by a use of the item
deref(s, ub, r) == IF s.current = Dangling THEN stale(s, ub) ELSE r

\* VimTree._move_up
Tree_move_up(s, ub) ==
  deref(s, ub,
    IF s.current # <<>> /\ itemAbove(s, s.current) # <<>>
    THEN setCurrentItem(s, itemAbove(s, s.current))
    ELSE s)

\* VimTree._move_down
Tree_move_down(s, ub) ==
  deref(s, ub,
    IF s.current # <<>> /\ itemBelow(s, s.current) # <<>>
    THEN setCurrentItem(s, itemBelow(s, s.current))
    ELSE s)

\* VimTree._move_left
Tree_move_left(s, ub) ==
  deref(s, ub,
    IF s.current = <<>> THEN s
    ELSE LET n == get_node(s.roots, s.current)
         IN  IF n.expanded /\ Len(n.children) > 0
             THEN [s EXCEPT !.roots = set_expanded(@, s.current, FALSE)]
             ELSE IF Len(s.current) > 1
                  THEN setCurrentItem(did(s, "move_left"), parent_path(s.current))
                  ELSE s)

\* l that steps into a collapsed node at once instead of expanding it first.
Tree_move_right_StepIn(s, ub) ==
  deref(s, ub,
    IF s.current = <<>> THEN s
    ELSE LET n == get_node(s.roots, s.current)
         IN  IF Len(n.children) > 0
             THEN setCurrentItem(did(s, "move_right"), s.current \o <<1>>)
             ELSE s)

\* VimTree._move_right
Tree_move_right(s, ub) ==
  deref(s, ub,
    IF s.current = <<>> THEN s
    ELSE LET n == get_node(s.roots, s.current)
         IN  IF Len(n.children) > 0
             THEN IF ~n.expanded
                  THEN [s EXCEPT !.roots = set_expanded(@, s.current, TRUE)]
                  ELSE setCurrentItem(did(s, "move_right"), s.current \o <<1>>)
             ELSE s)

\* VimTree._go_to_first
Tree_go_to_first(s) ==
  IF Len(s.roots) > 0 THEN setCurrentItem(did(s, "go_to_first"), <<1>>) ELSE s

\* VimTree._go_to_last
Tree_go_to_last(s) ==
  IF Len(all_items(s)) > 0
  THEN setCurrentItem(s, all_items(s)[Len(all_items(s))])
  ELSE s

\* VimTree._toggle_expand
Tree_toggle_expand(s, ub) ==
  deref(s, ub,
    IF s.current # <<>> /\ Len(get_node(s.roots, s.current).children) > 0
    THEN [s EXCEPT !.roots = set_expanded(@, s.current,
                                          ~get_node(@, s.current).expanded)]
    ELSE s)

\* VimTree._enter_edit_mode: editItem opens the item's editor.
Tree_enter_edit_mode(s, ub) ==
  deref(s, ub,
    IF s.current # <<>>
    THEN [s EXCEPT !.edit_mode = TRUE,
                   !.original_value = get_node(s.roots, s.current).text,
                   !.editing = TRUE]
    ELSE s)

\* VimTree._add_child_node
Tree_add_child_node_below(s, inp) ==
  deref(s, inp.ub,
    IF inp.accepted /\ strip(inp.value) # <<>>
    THEN LET new_item == new_child_path(s, s.current)
             s1 == Tree_add_child_node(did(s, "add_node"), s.current,
                                       tree_node(strip(inp.value)))
             s2 == setCurrentItem(s1, new_item)
         IN  IF s.current # <<>>
             THEN [s2 EXCEPT !.roots = set_expanded(@, s.current, TRUE)]
             ELSE s2
    ELSE s)

\* VimTree._add_sibling_above
Tree_add_sibling_above(s, inp) ==
  deref(s, inp.ub,
    IF s.current = <<>> THEN s
    ELSE IF inp.accepted /\ strip(inp.value) # <<>>
    THEN setCurrentItem(
           Tree_add_sibling_node(did(s, "add_node"), s.current,
                                 tree_node(strip(inp.value)), TRUE),
           s.current)
    ELSE s)

\* VimTree._delete_current_node: the item to select next is looked up before
\* the removal and selected after it.
Tree_delete_current_node(s, ub) ==
  LET s0 == [s EXCEPT !.pending_delete = FALSE, !.delete_elapsed = 0]
  IN  deref(s0, ub,
        IF s0.current = <<>> THEN s0
        ELSE LET cur == s0.current
                 below == itemBelow(s0, cur)
                 next_item == IF below # <<>> THEN below ELSE itemAbove(s0, cur)
                 s1 == Tree_remove_node(did(s0, "delete_current_node"), cur)
             IN  IF next_item # <<>>
                 THEN setCurrentItem(s1, after_removal(next_item, cur))
                 ELSE s1)

\* VimTree._copy_tree_item
RECURSIVE Tree_copy_tree_item(_)
Tree_copy_tree_item(n) ==
  [text |-> n.text,
   children |-> [i \in 1..Len(n.children) |-> Tree_copy_tree_item(n.children[i])]]

\* VimTree._copy_current_node
Tree_copy_current_node(s, ub) ==
  LET s0 == [s EXCEPT !.pending_copy = FALSE, !.copy_elapsed = 0]
  IN  deref(s0, ub,
        IF s0.current = <<>> THEN s0
        ELSE LET n == get_node(s0.roots, s0.current)
             IN  [did(s0, "copy_current_node") EXCEPT
                    !.copied_item = Some(Tree_copy_tree_item(n)),
                    !.clipboard = n.text])

\* The head of _paste_child and _paste_sibling_above: with an empty register
\* the stripped system clipboard text becomes the copied node.
Tree_paste_source(s) ==
  IF IsNone(s.copied_item) /\ strip(s.clipboard) # <<>>
  THEN [s EXCEPT !.copied_item = Some([text |-> strip(s.clipboard), children |-> <<>>])]
  ELSE s

\* A paste that adds the copied node without its children.
Tree_paste_tree_item_Flat(s, parent, d) ==
  Tree_add_child_node(s, parent, tree_node(d.text))

\* VimTree._paste_tree_item: the node is added, then its children are pasted
\* under it one after the other.
RECURSIVE Tree_paste_tree_item(_, _, _)
RECURSIVE paste_children(_, _, _)
Tree_paste_tree_item(s, parent, d) ==
  paste_children(Tree_add_child_node(s, parent, tree_node(d.text)),
                 new_child_path(s, parent), d.children)

\* The loop of _paste_tree_item and _paste_tree_item_sibling over the children
\* of the copy.
paste_children(s, new_item, ds) ==
  IF ds = <<>> THEN s
  ELSE paste_children(Tree_paste_tree_item(s, new_item, Head(ds)), new_item, Tail(ds))

\* VimTree._paste_tree_item_sibling
Tree_paste_tree_item_sibling(s, ref, d, above) ==
  paste_children(Tree_add_sibling_node(s, ref, tree_node(d.text), above),
                 parent_path(ref) \o <<(IF above THEN ref[Len(ref)] ELSE ref[Len(ref)] + 1)>>,
                 d.children)

\* VimTree._paste_child
Tree_paste_child(s, ub) ==
  LET s0 == Tree_paste_source(s)
  IN  IF IsNone(s0.copied_item) THEN did(s0, "paste_nothing")
      ELSE deref(s0, ub,
             LET new_item == new_child_path(s0, s0.current)
                 s1 == Tree_paste_tree_item(did(s0, "paste_child"), s0.current,
                                            s0.copied_item[1])
                 s2 == setCurrentItem(s1, new_item)
             IN  IF s0.current # <<>>
                 THEN [s2 EXCEPT !.roots = set_expanded(@, s0.current, TRUE)]
                 ELSE s2)

\* VimTree._paste_sibling_above
Tree_paste_sibling_above(s, ub) ==
  LET s0 == Tree_paste_source(s)
  IN  IF IsNone(s0.copied_item) THEN did(s0, "paste_nothing")
      ELSE deref(s0, ub,
             IF s0.current = <<>> THEN s0
             ELSE setCurrentItem(
                    Tree_paste_tree_item_sibling(did(s0, "paste_sibling_above"),
                                                 s0.current, s0.copied_item[1], TRUE),
                    s0.current))

\* VimTree._enter_visual_mode
Tree_enter_visual_mode(s, ub) ==
  deref(s, ub,
    IF s.current # <<>>
    THEN [s EXCEPT !.visual_mode = TRUE, !.visual_start_item = TRUE,
                   !.visual_end_item = TRUE]
    ELSE s)

\* VimTree._exit_visual_mode
Tree_exit_visual_mode(s) ==
  [s EXCEPT !.visual_mode = FALSE, !.visual_start_item = FALSE,
            !.visual_end_item = FALSE]

\* VimTree._visual_move_up and _visual_move_down: the move, then the new
\* current item ends the range.
Tree_visual_move(s, moved) ==
  IF ~s.visual_mode THEN s
  ELSE [moved EXCEPT !.visual_end_item = (moved.current # <<>>)]

\* VimTree._visual_move_left: to the parent, whether the node is expanded or
\* not.
Tree_visual_move_left(s, ub) ==
  deref(s, ub,
    IF s.current # <<>> /\ Len(s.current) > 1
    THEN [setCurrentItem(s, parent_path(s.current)) EXCEPT !.visual_end_item = TRUE]
    ELSE s)

\* VimTree._visual_move_right: a collapsed node is expanded and its first
\* child becomes current in the same step.
Tree_visual_move_right(s, ub) ==
  deref(s, ub,
    IF s.current # <<>> /\ Len(get_node(s.roots, s.current).children) > 0
    THEN [setCurrentItem([s EXCEPT !.roots = set_expanded(@, s.current, TRUE)],
                         s.current \o <<1>>)
            EXCEPT !.visual_end_item = TRUE]
    ELSE s)

\* VimTree._copy_visual_selection
Tree_copy_visual_selection(s, ub) ==
  IF ~s.visual_mode \/ ~s.visual_start_item THEN s ELSE Tree_copy_current_node(s, ub)

\* VimTree._delete_visual_selection
Tree_delete_visual_selection(s, ub) ==
  IF ~s.visual_mode \/ ~s.visual_start_item THEN s ELSE Tree_delete_current_node(s, ub)

\* VimTree._handle_visual_mode_key
Tree_handle_visual_mode_key(s, e, ub) ==
  CASE e.key = "j" -> Tree_visual_move(s, Tree_move_down(s, ub))
    [] e.key = "k" -> Tree_visual_move(s, Tree_move_up(s, ub))
    [] e.key = "h" -> Tree_visual_move_left(s, ub)
    [] e.key = "l" -> Tree_visual_move_right(s, ub)
    [] e.key = "y" -> Tree_exit_visual_mode(Tree_copy_visual_selection(s, ub))
    [] e.key \in {"d", "x"} -> Tree_exit_visual_mode(Tree_delete_visual_selection(s, ub))
    [] OTHER -> s

\* VimTree._execute_search: the first item, parents before children, whose
\* lower-cased text contains the search text becomes current; the search
\* mode is left, which empties the results again.
Tree_execute_search(s) ==
  IF s.search_text = <<>> THEN exit_search_mode(s)
  ELSE LET a == all_items(s)
           hits == {i \in 1..Len(a) :
                      contains(lower(get_node(s.roots, a[i]).text), lower(s.search_text))}
       IN  IF hits = {} THEN exit_search_mode(did(s, "search_no_results"))
           ELSE exit_search_mode(
                  setCurrentItem(did(s, "search_found"),
                                 a[CHOOSE i \in hits : \A j \in hits : i <= j]))

\* VimTree._build_tree_recursive
RECURSIVE Tree_build_tree_recursive(_)
Tree_build_tree_recursive(data) ==
  [i \in 1..Len(data) |->
     [text |-> data[i].text, expanded |-> FALSE,
      children |-> Tree_build_tree_recursive(data[i].children)]]

\* VimTree._find_and_select_item
Tree_find_and_select_item(s, text) ==
  LET a == all_items(s)
      hits == {i \in 1..Len(a) : get_node(s.roots, a[i]).text = text}
  IN  IF hits = {} THEN s
      ELSE setCurrentItem(s, a[CHOOSE i \in hits : \A j \in hits : i <= j])

\* QTreeWidget.clear
tw_clear(s) ==
  LET s1 == [s EXCEPT !.roots = <<>>, !.current = <<>>]
  IN  IF s.current # <<>> THEN Tree_on_selection_changed(s1) ELSE s1

\* VimTree._build_tree
Tree_build_tree(s, ub) ==
  deref(s, ub,
    LET current_text == IF s.current # <<>> THEN get_node(s.roots, s.current).text
                        ELSE <<>>
        s1 == [tw_clear(s) EXCEPT !.roots = Tree_build_tree_recursive(s.tree_data)]
    IN  IF current_text # <<>> THEN Tree_find_and_select_item(s1, current_text)
        ELSE s1)

\* VimTree._refresh_tree
Tree_refresh_tree(s, ub) ==
  deref(s, ub,
    LET current_text == IF s.current # <<>> THEN get_node(s.roots, s.current).text
                        ELSE <<>>
        s1 == Tree_build_tree(s, ub)
    IN  IF current_text # <<>> THEN Tree_find_and_select_item(s1, current_text)
        ELSE s1)

\* VimTree.set_tree_data
Tree_set_tree_data(s, data, ub) == Tree_build_tree([s EXCEPT !.tree_data = data], ub)

\* VimTree.clear_tree
Tree_clear_tree(s) == [tw_clear(s) EXCEPT !.tree_data = <<>>]

\* VimTree._search_next and _search_previous: nothing without results.
Tree_search_step(s) == s

\* VimTree._handle_navigation_key
Tree_handle_navigation_key(s, e, inp) ==
  IF e.key = "Escape" /\ s.visual_mode THEN Tree_exit_visual_mode(s)
  ELSE IF e.key = "Escape" /\ s.pending_delete THEN cancel_delete(s)
  ELSE IF e.key = "Escape" /\ s.pending_copy THEN cancel_copy(s)
  ELSE IF s.visual_mode THEN Tree_handle_visual_mode_key(s, e, inp.ub)
  ELSE IF s.pending_delete THEN
    IF e.key = "d" THEN Tree_delete_current_node(s, inp.ub) ELSE cancel_delete(s)
  ELSE IF s.pending_copy THEN
    IF e.key = "y" THEN Tree_copy_current_node(s, inp.ub) ELSE cancel_copy(s)
  ELSE
    CASE e.key = "j" -> Tree_move_down(s, inp.ub)
      [] e.key = "k" -> Tree_move_up(s, inp.ub)
      [] e.key = "h" -> Tree_move_left(s, inp.ub)
      [] e.key = "l" -> Tree_move_right(s, inp.ub)
      [] e.key = "g" -> g_key(s, e, Tree_go_to_first(s), Tree_go_to_last(s))
      [] e.key = "i" -> Tree_enter_edit_mode(s, inp.ub)
      [] e.key = "v" -> Tree_enter_visual_mode(s, inp.ub)
      [] e.key = "o" -> IF e.shift THEN Tree_add_sibling_above(s, inp)
                        ELSE Tree_add_child_node_below(s, inp)
      [] e.key = "d" -> start_delete(s)
      [] e.key = "x" -> Tree_delete_current_node(s, inp.ub)
      [] e.key = "y" -> start_copy(s)
      [] e.key = "p" -> IF e.shift THEN Tree_paste_sibling_above(s, inp.ub)
                        ELSE Tree_paste_child(s, inp.ub)
      [] e.key \in {"Space", "Return"} -> Tree_toggle_expand(s, inp.ub)
      [] e.key = "/" -> enter_search_mode(s)
      [] e.key = "n" -> Tree_search_step(s)
      [] e.key = "r" -> Tree_refresh_tree(s, inp.ub)
      [] OTHER -> s

\* VimTree._handle_key_event.  In edit mode Escape restores the original
\* text; Return leaves edit mode from the event loop, keeping the text.
Tree_handle_key_event(s, e, inp) ==
  IF s.edit_mode \/ s.editing THEN
    CASE e.key = "Escape" -> Tree_exit_edit_mode(s, FALSE)
      [] e.key = "Return" -> Tree_exit_edit_mode(s, TRUE)
      [] OTHER -> s
  ELSE IF s.search_mode THEN handle_search_key(s, e, Tree_execute_search(s))
  ELSE Tree_handle_navigation_key(expire_pending(s), e, inp)

\* VimTree._check_pending_operations, the slot of the 100 ms timer.
Tree_check_pending_operations(s, ub) ==
  LET s1 == IF s.pending_delete /\ s.delete_elapsed > PendingTimeout
            THEN did(cancel_delete(s), "sweep_delete")
            ELSE s
      s2 == IF s1.pending_copy /\ s1.copy_elapsed > PendingTimeout
            THEN cancel_copy(Tree_copy_current_node(did(s1, "sweep_copy"), ub))
            ELSE s1
  IN  sweep_pending_g(s2)

\* The item delegate commits the editor: the item takes the editor's text and
\* _on_item_changed remembers it.
Tree_on_item_changed(s, text) ==
  LET s1 == [s EXCEPT !.roots = put_node(@, s.current,
                         [get_node(@, s.current) EXCEPT !.text = text]),
                      !.editing = FALSE]
  IN  IF s.edit_mode
      THEN LET s2 == [s1 EXCEPT !.current_edit_value = Some(text)]
           IN  IF s.original_value # text THEN did(s2, "node_edited") ELSE s2
      ELSE s1

\* QAbstractItemView.focusInEvent: without a current index the first item
\* becomes current.
focus_in(s) ==
  [s EXCEPT !.current = IF @ = <<>> /\ Len(s.roots) > 0 THEN <<1>> ELSE @]

(* ----------------------- the tree as a state machine --------------------- *)

\* The largest number of nodes a command or call may grow the tree to.
MaxNodes == 2

RECURSIVE count_nodes(_)
count_nodes(f) ==
  IF f = <<>> THEN 0
  ELSE 1 + count_nodes(Head(f).children) + count_nodes(Tail(f))

\* The tree_data dictionaries given to the constructor and to set_tree_data:
\* {} and {"a": {"b": {}}, "b": {}}.
TreeData ==
  { <<>>,
    << [text |-> <<"a">>, children |-> <<[text |-> <<"b">>, children |-> <<>>]>>],
       [text |-> <<"b">>, children |-> <<>>] >> }

UBOutcomes == {"crash", "none", "first", "noop"}

TreeKeys ==
  {Ev(k, FALSE) : k \in {"j", "k", "h", "l", "g", "i", "v", "o", "d", "x", "y", "p",
                         "Space", "/", "n", "r", "Escape"}}
  \cup {Ev(k, TRUE) : k \in {"g", "o", "p"}}

TreeSearchKeys ==
  {Ev(k, FALSE) : k \in {"a", "Escape", "Return", "Backspace"}}

\* The texts typed into the tree's dialogs and editors.
TreeTexts == {<<"b">>}

TreeDialogInputs ==
  { NoInput, [accepted |-> TRUE, value |-> <<" ">>],
    [accepted |-> TRUE, value |-> <<"b", " ">>] }

\* s1, the widget after a handler ran on s, is within the bounds.
TreeBounded(s, s1) ==
  /\ IF count_nodes(s1.roots) <= MaxNodes THEN TRUE
     ELSE count_nodes(s1.roots) <= count_nodes(s.roots)
  /\ IF IsNone(s1.copied_item) THEN TRUE
     ELSE /\ count_nodes(s1.copied_item) <= MaxNodes
          /\ Len(s1.copied_item[1].text) <= MaxText
  /\ Len(s1.search_text) <= MaxSearch

\* VimTree.__init__ and _setup_ui, which ends with _build_tree.
Tree_init(data, clip) ==
  [kind |-> "tree",
   roots |-> Tree_build_tree_recursive(data), current |-> <<>>, tree_data |-> data,
   edit_mode |-> FALSE, original_value |-> <<>>, current_edit_value |-> None,
   editing |-> FALSE,
   pending_delete |-> FALSE, delete_elapsed |-> 0,
   pending_copy |-> FALSE, copy_elapsed |-> 0, pending_g |-> -1,
   copied_item |-> None, clipboard |-> clip,
   visual_mode |-> FALSE, visual_start_item |-> FALSE, visual_end_item |-> FALSE,
   search_mode |-> FALSE, search_text |-> <<>>, search_results |-> <<>>,
   current_search_index |-> -1,
   crashed |-> FALSE, cmd |-> <<>>]

\* The process after a crash: no widget is left.
Crashed == [Tree_init(<<>>, <<>>) EXCEPT !.crashed = TRUE]

\* What the handler leaves behind: its widget, or the crashed process.
tree_settled(s) == IF s.crashed THEN Crashed ELSE settled(s)

\* The widget is built, shown and given the keyboard focus.
InitTree ==
  /\ \E data \in TreeData : self = focus_in(Tree_init(data, <<>>))
  /\ last_cmd = NoCmd

IsTree == self.kind = "tree"

\* The tree can take a key or a call: it has not crashed and no editor is open.
TreeIdle == IsTree /\ ~self.crashed /\ ~self.editing

\* The tree widget gets the keyboard focus.
TreeFocusIn ==
  /\ TreeIdle
  /\ self' = focus_in(self)
  /\ UNCHANGED last_cmd

\* A key press reaches the event filter of the tree widget.
TreeKey ==
  /\ TreeIdle
  /\ \E e \in (IF self.edit_mode THEN {Ev("Escape", FALSE), Ev("Return", FALSE)}
               ELSE IF self.search_mode THEN TreeSearchKeys ELSE TreeKeys) :
     \E inp \in (IF e.key = "o" THEN TreeDialogInputs ELSE {NoInput}) :
     \E ub \in (IF self.current = Dangling THEN UBOutcomes ELSE {"crash"}) :
       LET s1 == Tree_handle_key_event(self, e,
                   [accepted |-> inp.accepted, value |-> inp.value, ub |-> ub])
       IN  /\ TreeBounded(self, s1)
           /\ self' = tree_settled(s1)
           /\ last_cmd' = [ev |-> EvName(e), cmd |-> s1.cmd]

\* The user finishes the item editor with Return: the delegate commits.
TreeEditorCommit ==
  /\ IsTree /\ self.editing
  /\ \E t \in TreeTexts :
       LET s1 == Tree_on_item_changed(self, t)
       IN  /\ self' = tree_settled(s1)
           /\ last_cmd' = [ev |-> <<"commit">>, cmd |-> s1.cmd]

\* The user leaves the item editor with Escape: the delegate drops the text.
TreeEditorCancel ==
  /\ IsTree /\ self.editing
  /\ self' = [self EXCEPT !.editing = FALSE]
  /\ UNCHANGED last_cmd

\* The 100 ms timer fires.
TreeTick ==
  /\ IsTree /\ ~self.crashed
  /\ \E ub \in UBOutcomes :
       /\ self.current = Dangling \/ ub = "crash"
       /\ LET s1 == Tree_check_pending_operations(self, ub)
          IN  /\ self' = tree_settled(s1)
              /\ last_cmd' = noted(<<"tick">>, s1)

\* Half a second passes.
TreeTime ==
  /\ IsTree /\ ~self.crashed
  /\ self' = time_passes(self)
  /\ UNCHANGED last_cmd

TreeSetTreeData ==
  /\ TreeIdle
  /\ \E data \in TreeData, ub \in UBOutcomes :
       /\ self.current = Dangling \/ ub = "crash"
       /\ self' = tree_settled(Tree_set_tree_data(self, data, ub))
  /\ last_cmd' = ApiCmd

TreeAddChildNode ==
  /\ TreeIdle
  /\ \E i \in 0..Len(all_items(self)), t \in TreeTexts :
       LET s1 == Tree_add_child_node(self, IF i = 0 THEN <<>> ELSE all_items(self)[i],
                                     tree_node(t))
       IN  TreeBounded(self, s1) /\ self' = tree_settled(s1)
  /\ last_cmd' = ApiCmd

TreeAddSiblingNode ==
  /\ TreeIdle
  /\ \E i \in 1..Len(all_items(self)), t \in TreeTexts, above \in BOOLEAN :
       LET s1 == Tree_add_sibling_node(self, all_items(self)[i], tree_node(t), above)
       IN  TreeBounded(self, s1) /\ self' = tree_settled(s1)
  /\ last_cmd' = ApiCmd

TreeRemoveNode ==
  /\ TreeIdle
  /\ \E i \in 1..Len(all_items(self)) : 
       self' = tree_settled(Tree_remove_node(self, all_items(self)[i]))
  /\ last_cmd' = ApiCmd

TreeClearTree ==
  /\ TreeIdle
  /\ self' = tree_settled(Tree_clear_tree(self))
  /\ last_cmd' = ApiCmd

NextTree ==
  \/ TreeFocusIn
  \/ TreeKey
  \/ TreeEditorCommit
  \/ TreeEditorCancel
  \/ TreeTick
  \/ TreeTime
  \/ TreeSetTreeData
  \/ TreeAddChildNode
  \/ TreeAddSiblingNode
  \/ TreeRemoveNode
  \/ TreeClearTree

SpecTree == InitTree /\ [][NextTree]_vars

(* ================================ VimTable =============================== *)

(* columns is the list of header texts, data the list of rows, a row the     *)
(* list of its cell texts (rows may be shorter or longer than columns).      *)
(* currentRow / currentColumn are the current cell of the QTableWidget,      *)
(* (-1, -1) without one; its row and column counts are those of the last     *)
(* _rebuild_table, len(data) and len(columns).  Every cell of data has an    *)
(* item with the same text in the widget, so the item texts are not kept.    *)

\* The largest number of rows and of columns a command or call may grow the
\* table to.
MaxRows == 2

MaxCols == 2

\* str.split(sep), sep one character
RECURSIVE split(_, _)
split(t, sep) ==
  IF \E i \in 1..Len(t) : t[i] = sep
  THEN LET i == CHOOSE i \in 1..Len(t) : t[i] = sep /\ \A j \in 1..(i - 1) : t[j] # sep
       IN  <<SubSeq(t, 1, i - 1)>> \o split(SubSeq(t, i + 1, Len(t)), sep)
  ELSE <<t>>

\* sep.join(parts)
RECURSIVE join(_, _)
join(parts, sep) ==
  IF parts = <<>> THEN <<>>
  ELSE IF Len(parts) = 1 THEN parts[1]
  ELSE parts[1] \o <<sep>> \o join(Tail(parts), sep)

has_char(t, c) == \E i \in 1..Len(t) : t[i] = c

\* [""] * n
empty_cells(n) == [i \in 1..n |-> <<>>]

\* f"Col{n}"
ColName(n) ==
  <<"C", "o", "l">> \o (CASE n = 1 -> <<"1">> [] n = 2 -> <<"2">> [] n = 3 -> <<"3">>
                          [] OTHER -> <<"4">>)

rowCount(s) == Len(s.data)

columnCount(s) == Len(s.columns)

\* The cell (row, col) is a cell of data.
in_data(s, row, col) ==
  /\ 0 <= row /\ row < Len(s.data)
  /\ 0 <= col /\ col < Len(s.data[row + 1])

\* VimTable._exit_edit_mode: with save the text of the current item is
\* written to its data cell, which already holds it.
Table_exit_edit_mode(s, save) ==
  IF ~s.edit_mode THEN s
  ELSE [s EXCEPT !.edit_mode = FALSE, !.original_value = <<>>]

\* VimTable._on_selection_changed
Table_on_selection_changed(s) ==
  IF s.edit_mode THEN Table_exit_edit_mode(s, TRUE) ELSE s

\* QTableWidget.setCurrentCell: a cell outside the table is no cell.
setCurrentCell(s, row, col) ==
  LET ok == 0 <= row /\ row < rowCount(s) /\ 0 <= col /\ col < columnCount(s)
      r == IF ok THEN row ELSE -1
      c == IF ok THEN col ELSE -1
      s1 == [s EXCEPT !.currentRow = r, !.currentColumn = c]
  IN  IF r # s.currentRow \/ c # s.currentColumn
      THEN Table_on_selection_changed(s1)
      ELSE s1

\* VimTable._rebuild_table, called after data or columns changed: the widget
\* takes the new row and column counts and the items of data; a current cell
\* that is still in the table is kept, one that is not becomes (0, 0), and
\* without a current cell before there is none after.
Table_rebuild_table(s) ==
  IF s.currentRow >= 0 /\ s.currentColumn >= 0
  THEN IF s.currentRow < rowCount(s) /\ s.currentColumn < columnCount(s)
       THEN s
       ELSE IF rowCount(s) > 0 /\ columnCount(s) > 0
            THEN setCurrentCell(s, 0, 0)
            ELSE setCurrentCell(s, -1, -1)
  ELSE s

\* VimTable.set_data
Table_set_data(s, data) == Table_rebuild_table([s EXCEPT !.data = data])

\* VimTable.update_row_external
Table_update_row_external(s, row_idx, row_data) ==
  IF 0 <= row_idx /\ row_idx < Len(s.data)
  THEN Table_rebuild_table([s EXCEPT !.data[row_idx + 1] = row_data])
  ELSE s

\* VimTable.update_cell_external and VimTable.update_cell: the guard looks at
\* the number of rows and of columns; the assignment to a row that is too
\* short for the column raises IndexError and nothing changes.
Table_update_cell(s, row_idx, col_idx, value) ==
  IF 0 <= row_idx /\ row_idx < Len(s.data) /\ 0 <= col_idx /\ col_idx < Len(s.columns)
  THEN IF col_idx < Len(s.data[row_idx + 1])
       THEN Table_rebuild_table([s EXCEPT !.data[row_idx + 1][col_idx + 1] = value])
       ELSE did(s, "IndexError")
  ELSE s

\* VimTable.add_row
Table_add_row(s, cells) == Table_rebuild_table([s EXCEPT !.data = Append(@, cells)])

\* VimTable.clear_data: setRowCount(0) leaves no current cell.
Table_clear_data(s) == setCurrentCell([s EXCEPT !.data = <<>>], -1, -1)

\* VimTable._move_cursor_left
Table_move_cursor_left(s) ==
  LET s0 == did(s, "move_cursor_left") IN
  IF s0.currentColumn > 0 THEN setCurrentCell(s0, s0.currentRow, s0.currentColumn - 1)
  ELSE s0

\* VimTable._move_cursor_right
Table_move_cursor_right(s) ==
  LET s0 == did(s, "move_cursor_right") IN
  IF s0.currentColumn < columnCount(s0) - 1
  THEN setCurrentCell(s0, s0.currentRow, s0.currentColumn + 1)
  ELSE s0

\* VimTable._move_cursor_up
Table_move_cursor_up(s) ==
  LET s0 == did(s, "move_cursor_up") IN
  IF s0.currentRow > 0 THEN setCurrentCell(s0, s0.currentRow - 1, s0.currentColumn)
  ELSE s0

\* VimTable._move_cursor_down
Table_move_cursor_down(s) ==
  LET s0 == did(s, "move_cursor_down") IN
  IF s0.currentRow < rowCount(s0) - 1
  THEN setCurrentCell(s0, s0.currentRow + 1, s0.currentColumn)
  ELSE s0

\* VimTable._enter_edit_mode: the editor of the current cell opens.  The
\* original value is the item's text, the data cell's text where data has
\* the cell.
Table_enter_edit_mode(s) ==
  IF s.currentRow >= 0 /\ s.currentColumn >= 0
  THEN [s EXCEPT !.edit_mode = TRUE,
                 !.original_value = IF in_data(s, s.currentRow, s.currentColumn)
                                    THEN s.data[s.currentRow + 1][s.currentColumn + 1]
                                    ELSE <<>>,
                 !.editing = TRUE]
  ELSE s

\* VimTable._enter_header_edit_mode
Table_enter_header_edit_mode(s, inp) ==
  IF s.currentColumn >= 0 /\ inp.accepted /\ strip(inp.value) # <<>>
  THEN [s EXCEPT !.columns[s.currentColumn + 1] = strip(inp.value)]
  ELSE s

\* VimTable._add_row_below
Table_add_row_below(s) ==
  LET insert_pos == IF s.currentRow >= 0 THEN s.currentRow + 1 ELSE Len(s.data)
      s1 == Table_rebuild_table(
              [s EXCEPT
                 !.data = list_insert(@, insert_pos, empty_cells(Len(s.columns)))])
  IN  IF insert_pos < rowCount(s1) THEN setCurrentCell(s1, insert_pos, s1.currentColumn)
      ELSE s1

\* VimTable._add_row_above
Table_add_row_above(s) ==
  LET insert_pos == IF s.currentRow >= 0 THEN s.currentRow ELSE 0
      s1 == Table_rebuild_table(
              [s EXCEPT
                 !.data = list_insert(@, insert_pos, empty_cells(Len(s.columns)))])
  IN  setCurrentCell(s1, insert_pos, s1.currentColumn)

\* VimTable._add_column_right
Table_add_column_right(s) ==
  LET insert_pos == IF s.currentColumn >= 0 THEN s.currentColumn + 1 ELSE Len(s.columns)
      s1 == Table_rebuild_table(
              [did(s, "add_column") EXCEPT
                 !.columns = list_insert(@, insert_pos, ColName(Len(@) + 1)),
                 !.data = [i \in 1..Len(@) |-> list_insert(@[i], insert_pos, <<>>)]])
  IN  IF insert_pos < columnCount(s1) THEN setCurrentCell(s1, s1.currentRow, insert_pos)
      ELSE s1

\* VimTable._add_column_end
Table_add_column_end(s) ==
  LET s1 == Table_rebuild_table(
              [did(s, "add_column") EXCEPT
                 !.columns = Append(@, ColName(Len(@) + 1)),
                 !.data = [i \in 1..Len(@) |-> Append(@[i], <<>>)]])
  IN  setCurrentCell(s1, s1.currentRow, Len(s1.columns) - 1)

\* _delete_current_row without the test for the last remaining row.
Table_delete_current_row_Always(s) ==
  LET s0 == [s EXCEPT !.pending_delete = FALSE, !.delete_elapsed = 0]
      current_row == s0.currentRow
  IN  IF current_row >= 0 /\ current_row < Len(s0.data)
      THEN Table_rebuild_table([s0 EXCEPT !.data = list_pop(@, current_row)])
      ELSE did(s0, "warn_last_row")

\* VimTable._delete_current_row
Table_delete_current_row(s) ==
  LET s0 == [s EXCEPT !.pending_delete = FALSE, !.delete_elapsed = 0]
      current_row == s0.currentRow
  IN  IF current_row >= 0 /\ Len(s0.data) > 1
      THEN LET s1 == Table_rebuild_table(
                       [s0 EXCEPT
                          !.data = list_pop(@, current_row)])
               row == IF current_row >= rowCount(s1) THEN rowCount(s1) - 1
                      ELSE current_row
           IN  IF row >= 0 THEN setCurrentCell(s1, row, s1.currentColumn) ELSE s1
      ELSE did(s0, "warn_last_row")

\* VimTable._delete_current_column
Table_delete_current_column(s) ==
  LET s0 == [s EXCEPT !.pending_delete = FALSE, !.delete_elapsed = 0]
      current_col == s0.currentColumn
  IN  IF current_col >= 0 /\ Len(s0.columns) > 1
      THEN LET s1 == Table_rebuild_table(
                       [did(s0, "delete_current_column") EXCEPT
                          !.columns = list_pop(@, current_col),
                          !.data = [i \in 1..Len(@) |->
                                      IF current_col < Len(@[i])
                                      THEN list_pop(@[i], current_col)
                                      ELSE @[i]]])
               col == IF current_col >= columnCount(s1) THEN columnCount(s1) - 1
                      ELSE current_col
           IN  IF col >= 0 THEN setCurrentCell(s1, s1.currentRow, col) ELSE s1
      ELSE did(s0, "warn_last_column")

\* VimTable._copy_current_row
Table_copy_current_row(s) ==
  LET s0 == [s EXCEPT !.pending_copy = FALSE, !.copy_elapsed = 0] IN
  IF s0.currentRow >= 0 /\ s0.currentRow < Len(s0.data)
  THEN [s0 EXCEPT
          !.copied_row = Some(s0.data[s0.currentRow + 1]),
          !.copied_cell = None,
          !.clipboard = join(s0.data[s0.currentRow + 1], "\t")]
  ELSE s0

\* VimTable._copy_current_cell
Table_copy_current_cell(s) ==
  IF in_data(s, s.currentRow, s.currentColumn) /\ s.currentColumn >= 0
  THEN [s EXCEPT
          !.copied_cell = Some(s.data[s.currentRow + 1][s.currentColumn + 1]),
          !.copied_row = None,
          !.clipboard = s.data[s.currentRow + 1][s.currentColumn + 1]]
  ELSE s

\* cell_edited.emit(row, col, old_value, new_value): __init__ has connected
\* the signal to the on_cell_edit callback, which runs.
cell_edited(s, row, col, old_value, new_value) == did(s, "on_cell_edit")

\* self.on_cell_edit(row, col, old_value, new_value), the call that follows
\* every emission.
on_cell_edit(s, row, col, old_value, new_value) == did(s, "on_cell_edit")

\* The cell paste of _paste_row: the value replaces the current cell's.
Table_paste_cell(s, value) ==
  IF s.currentRow >= 0 /\ s.currentColumn >= 0 /\ in_data(s, s.currentRow, s.currentColumn)
  THEN LET old_value == s.data[s.currentRow + 1][s.currentColumn + 1]
           s1 == [s EXCEPT !.data[s.currentRow + 1][s.currentColumn + 1] = value]
       IN  on_cell_edit(cell_edited(s1, s.currentRow, s.currentColumn, old_value, value),
                        s.currentRow, s.currentColumn, old_value, value)
  ELSE s

\* The cells of one row of the copied selection written at (target_row,
\* current_col + col_offset), from col_offset on.
RECURSIVE paste_selection_row(_, _, _, _, _)
paste_selection_row(s, target_row, current_col, row_data, col_offset) ==
  IF col_offset >= Len(row_data) THEN s
  ELSE LET target_col == current_col + col_offset IN
       IF target_col >= Len(s.columns)
       THEN paste_selection_row(s, target_row, current_col, row_data, col_offset + 1)
       ELSE LET row == s.data[target_row + 1]
                padded == row \o empty_cells(target_col + 1 - Len(row))
                cell_value == row_data[col_offset + 1]
                old_value == padded[target_col + 1]
                s1 == [s EXCEPT !.data[target_row + 1] =
                         [padded EXCEPT ![target_col + 1] = cell_value]]
                s2 == on_cell_edit(
                        cell_edited(s1, target_row, target_col, old_value, cell_value),
                        target_row, target_col, old_value, cell_value)
            IN  paste_selection_row(s2, target_row, current_col, row_data, col_offset + 1)

RECURSIVE paste_selection_rows(_, _, _, _, _)
paste_selection_rows(s, current_row, current_col, selection, row_offset) ==
  IF row_offset >= Len(selection) THEN s
  ELSE LET target_row == current_row + row_offset
           s1 == [s EXCEPT !.data =
                    @ \o [i \in 1..(target_row + 1 - Len(@)) |-> empty_cells(Len(s.columns))]]
           s2 == paste_selection_row(s1, target_row, current_col,
                                     selection[row_offset + 1], 0)
       IN  paste_selection_rows(s2, current_row, current_col, selection, row_offset + 1)

\* VimTable._paste_visual_selection
Table_paste_visual_selection(s) ==
  IF IsNone(s.copied_selection) THEN s
  ELSE IF s.currentRow < 0 \/ s.currentColumn < 0 THEN s
  ELSE Table_rebuild_table(
         paste_selection_rows(did(s, "paste_block"), s.currentRow, s.currentColumn,
                              s.copied_selection[1], 0))

\* VimTable._paste_clipboard_visual_selection
Table_paste_clipboard_visual_selection(s, clipboard_text) ==
  LET lines == split(clipboard_text, "\n")
      selection_data == [i \in 1..Len(lines) |-> split(lines[i], "\t")]
      s1 == Table_paste_visual_selection([s EXCEPT !.copied_selection = Some(selection_data)])
  IN  [s1 EXCEPT !.copied_selection = s.copied_selection]

\* A row paste that inserts the fields as they are.
Table_paste_row_insert_AsIs(s, pasted_row) ==
  LET insert_pos == IF s.currentRow >= 0 THEN s.currentRow + 1 ELSE Len(s.data)
      s1 == Table_rebuild_table(
              [did(s, "paste_row") EXCEPT !.data = list_insert(@, insert_pos, pasted_row)])
  IN  IF insert_pos < rowCount(s1) THEN setCurrentCell(s1, insert_pos, s1.currentColumn)
      ELSE s1

\* The row paste at the end of _paste_row: the row is cut or filled to the
\* number of columns and inserted below the current row.
Table_paste_row_insert(s, pasted_row) ==
  LET insert_pos == IF s.currentRow >= 0 THEN s.currentRow + 1 ELSE Len(s.data)
      fitted == IF Len(pasted_row) < Len(s.columns)
                THEN pasted_row \o empty_cells(Len(s.columns) - Len(pasted_row))
                ELSE SubSeq(pasted_row, 1, Len(s.columns))
      s1 == Table_rebuild_table(
              [did(s, "paste_row") EXCEPT !.data = list_insert(@, insert_pos, fitted)])
  IN  IF insert_pos < rowCount(s1) THEN setCurrentCell(s1, insert_pos, s1.currentColumn)
      ELSE s1

\* VimTable._paste_row
Table_paste_row(s) ==
  LET clipboard_text == strip(s.clipboard) IN
  IF ~IsNone(s.copied_selection) THEN Table_paste_visual_selection(s)
  ELSE IF ~IsNone(s.copied_cell) THEN Table_paste_cell(s, s.copied_cell[1])
  ELSE IF clipboard_text # <<>> /\ has_char(clipboard_text, "\n")
  THEN Table_paste_clipboard_visual_selection(s, clipboard_text)
  ELSE IF clipboard_text # <<>> /\ has_char(clipboard_text, "\t")
  THEN Table_paste_row_insert(s, split(clipboard_text, "\t"))
  ELSE IF clipboard_text # <<>> THEN Table_paste_cell(s, clipboard_text)
  ELSE IF ~IsNone(s.copied_row) /\ s.copied_row[1] # <<>>
  THEN Table_paste_row_insert(s, s.copied_row[1])
  ELSE did(s, "paste_nothing")

\* VimTable._refresh_table
Table_refresh_table(s) ==
  LET s1 == Table_rebuild_table(s) IN
  IF s.currentRow >= 0 /\ s.currentColumn >= 0
  THEN IF s.currentRow < rowCount(s1) /\ s.currentColumn < columnCount(s1)
       THEN setCurrentCell(s1, s.currentRow, s.currentColumn)
       ELSE setCurrentCell(s1, 0, 0)
  ELSE s1

\* VimTable._enter_visual_mode
Table_enter_visual_mode(s) ==
  IF s.currentRow >= 0 /\ s.currentColumn >= 0
  THEN [s EXCEPT !.visual_mode = TRUE, !.visual_line_mode = FALSE,
                 !.visual_start_row = s.currentRow, !.visual_start_col = s.currentColumn,
                 !.visual_end_row = s.currentRow, !.visual_end_col = s.currentColumn]
  ELSE s

\* VimTable._enter_visual_line_mode
Table_enter_visual_line_mode(s) ==
  IF s.currentRow >= 0
  THEN [s EXCEPT !.visual_line_mode = TRUE, !.visual_mode = FALSE,
                 !.visual_start_row = s.currentRow, !.visual_start_col = 0,
                 !.visual_end_row = s.currentRow, !.visual_end_col = columnCount(s) - 1]
  ELSE s

\* VimTable._exit_visual_mode
Table_exit_visual_mode(s) ==
  [s EXCEPT !.visual_mode = FALSE, !.visual_line_mode = FALSE,
            !.visual_start_row = -1, !.visual_start_col = -1,
            !.visual_end_row = -1, !.visual_end_col = -1]

\* VimTable._visual_move_left
Table_visual_move_left(s) ==
  IF s.visual_line_mode THEN s
  ELSE IF s.currentColumn > 0
  THEN [setCurrentCell(s, s.currentRow, s.currentColumn - 1) EXCEPT
          !.visual_end_col = s.currentColumn - 1]
  ELSE s

\* VimTable._visual_move_right
Table_visual_move_right(s) ==
  IF s.visual_line_mode THEN s
  ELSE IF s.currentColumn < columnCount(s) - 1
  THEN [setCurrentCell(s, s.currentRow, s.currentColumn + 1) EXCEPT
          !.visual_end_col = s.currentColumn + 1]
  ELSE s

\* VimTable._visual_move_up
Table_visual_move_up(s) ==
  IF s.currentRow > 0
  THEN [setCurrentCell(s, s.currentRow - 1, s.currentColumn) EXCEPT
          !.visual_end_row = s.currentRow - 1,
          !.visual_end_col = IF s.visual_line_mode THEN columnCount(s) - 1 ELSE @]
  ELSE s

\* VimTable._visual_move_down
Table_visual_move_down(s) ==
  IF s.currentRow < rowCount(s) - 1
  THEN [setCurrentCell(s, s.currentRow + 1, s.currentColumn) EXCEPT
          !.visual_end_row = s.currentRow + 1,
          !.visual_end_col = IF s.visual_line_mode THEN columnCount(s) - 1 ELSE @]
  ELSE s

\* VimTable._copy_visual_selection
Table_copy_visual_selection(s) ==
  IF ~(s.visual_mode \/ s.visual_line_mode) THEN s
  ELSE
    LET start_row == Min(s.visual_start_row, s.visual_end_row)
        end_row == Max(s.visual_start_row, s.visual_end_row)
        start_col == Min(s.visual_start_col, s.visual_end_col)
        end_col == Max(s.visual_start_col, s.visual_end_col)
        selected_data ==
          [i \in 1..(end_row - start_row + 1) |->
             [j \in 1..(end_col - start_col + 1) |->
                IF in_data(s, start_row + i - 1, start_col + j - 1)
                THEN s.data[start_row + i][start_col + j]
                ELSE <<>>]]
    IN  [s EXCEPT
           !.copied_selection = Some(selected_data),
           !.copied_row = None, !.copied_cell = None,
           !.clipboard = IF Len(selected_data) = 1 /\ Len(selected_data[1]) = 1
                         THEN selected_data[1][1]
                         ELSE join([i \in 1..Len(selected_data) |->
                                      join(selected_data[i], "\t")], "\n")]

\* VimTable._handle_visual_mode_key
Table_handle_visual_mode_key(s, e) ==
  CASE e.key = "h" -> Table_visual_move_left(s)
    [] e.key = "j" -> Table_visual_move_down(s)
    [] e.key = "k" -> Table_visual_move_up(s)
    [] e.key = "l" -> Table_visual_move_right(s)
    [] e.key = "y" -> Table_exit_visual_mode(Table_copy_visual_selection(s))
    [] e.key = "d" -> Table_exit_visual_mode(s)
    [] OTHER -> s

\* The key dispatch at the end of VimTable._handle_navigation_key.
Table_command_key(s, e, inp) ==
  CASE e.key = "h" -> Table_move_cursor_left(s)
    [] e.key = "j" -> Table_move_cursor_down(s)
    [] e.key = "k" -> Table_move_cursor_up(s)
    [] e.key = "l" -> Table_move_cursor_right(s)
    [] e.key = "v" -> IF e.shift THEN Table_enter_visual_line_mode(s)
                      ELSE Table_enter_visual_mode(s)
    [] e.key = "i" -> IF e.shift THEN Table_enter_header_edit_mode(s, inp)
                      ELSE Table_enter_edit_mode(s)
    [] e.key = "o" -> IF e.shift THEN Table_add_row_above(s) ELSE Table_add_row_below(s)
    [] e.key = "a" -> IF e.shift THEN Table_add_column_end(s)
                      ELSE Table_add_column_right(s)
    [] e.key = "d" -> start_delete(s)
    [] e.key = "y" -> start_copy(s)
    [] e.key = "p" -> Table_paste_row(s)
    [] e.key = "r" -> Table_refresh_table(s)
    [] OTHER -> s

\* VimTable._handle_navigation_key: a pending copy followed by another key
\* copies the current cell and the key is then handled as a command.
Table_handle_navigation_key(s, e, inp) ==
  IF e.key = "Escape" /\ (s.visual_mode \/ s.visual_line_mode) THEN Table_exit_visual_mode(s)
  ELSE IF e.key = "Escape" /\ s.pending_delete THEN cancel_delete(s)
  ELSE IF e.key = "Escape" /\ s.pending_copy THEN cancel_copy(s)
  ELSE IF s.visual_mode \/ s.visual_line_mode THEN Table_handle_visual_mode_key(s, e)
  ELSE IF s.pending_delete THEN
    CASE e.key = "d" -> Table_delete_current_row(s)
      [] e.key = "c" -> Table_delete_current_column(s)
      [] OTHER -> cancel_delete(s)
  ELSE IF s.pending_copy THEN
    IF e.key = "y" THEN Table_copy_current_row(s)
    ELSE Table_command_key(cancel_copy(Table_copy_current_cell(s)), e, inp)
  ELSE Table_command_key(s, e, inp)

\* VimTable._handle_key_event: while a cell editor is open Escape clears
\* edit_mode and every key is left to the editor.
Table_handle_key_event(s, e, inp) ==
  IF s.editing THEN
    IF e.key = "Escape" THEN [s EXCEPT !.edit_mode = FALSE] ELSE s
  ELSE Table_handle_navigation_key(expire_pending(s), e, inp)

\* VimTable._check_pending_operations, the slot of the 100 ms timer.
Table_check_pending_operations(s) ==
  LET s1 == IF s.pending_delete /\ s.delete_elapsed > PendingTimeout
            THEN did(cancel_delete(s), "sweep_delete")
            ELSE s
  IN  IF s1.pending_copy /\ s1.copy_elapsed > PendingTimeout
      THEN cancel_copy(Table_copy_current_cell(did(s1, "sweep_copy")))
      ELSE s1

\* VimTable._on_item_changed after the editor's commit: the data cell takes
\* the item's text, where data has the cell.
Table_on_item_changed(s, text) ==
  LET s1 == [s EXCEPT !.editing = FALSE]
      old_value == IF in_data(s, s.currentRow, s.currentColumn)
                   THEN s.data[s.currentRow + 1][s.currentColumn + 1]
                   ELSE <<>>
      s2 == IF in_data(s, s.currentRow, s.currentColumn)
            THEN [s1 EXCEPT !.data[s.currentRow + 1][s.currentColumn + 1] = text]
            ELSE s1
  IN  IF old_value # text
      THEN on_cell_edit(cell_edited(s2, s.currentRow, s.currentColumn, old_value, text),
                        s.currentRow, s.currentColumn, old_value, text)
      ELSE s2

\* time.time() grows by 0.5 s: every running chord is 0.5 s older.
Table_time_passes(s) ==
  [s EXCEPT !.delete_elapsed = IF s.pending_delete THEN Min(@ + 1, ElapsedCap) ELSE @,
            !.copy_elapsed = IF s.pending_copy THEN Min(@ + 1, ElapsedCap) ELSE @]

\* QAbstractItemView.focusInEvent: without a current index the first cell
\* becomes current.
Table_focus_in(s) ==
  IF s.currentRow < 0 /\ rowCount(s) > 0 /\ columnCount(s) > 0
  THEN [s EXCEPT !.currentRow = 0, !.currentColumn = 0]
  ELSE s

(* ----------------------- the table as a state machine -------------------- *)

\* The largest number of cells in the table.
MaxCells == 2

\* The largest number of cells in the copied selection.
MaxSelection == 1

\* The rows given to add_row and update_row_external: (), ("a") and
\* ("a", "a").
TableRows == { <<>>, << <<"a">> >>, << <<"a">>, <<"a">> >> }

\* The lists given to set_data.
TableDatas == { << << <<"a">>, <<"a">> >> >>, << << <<"a">> >>, <<>> >> }

\* set_data gives the table no more than MaxCells cells.
fits(columns, data) ==
  /\ Len(data) * Len(columns) <= MaxCells
  /\ \A i \in 1..Len(data) : Len(data[i]) <= Len(columns)

\* The column lists given to the constructor: ["Col1"] and ["Col1", "Col2"].
TableColumns == { <<ColName(1)>>, <<ColName(1), ColName(2)>> }

TableKeys ==
  {Ev(k, FALSE) : k \in {"h", "j", "k", "l", "v", "i", "o", "a", "d", "c", "y", "p",
                         "r", "Escape"}}
  \cup {Ev(k, TRUE) : k \in {"v", "i", "o", "a"}}

\* What the user does with the header dialog: cancel it, or accept " Col2".
HeaderInputs == { NoInput, [accepted |-> TRUE, value |-> <<" ">> \o ColName(2)] }

TableBounded(s) ==
  /\ Len(s.columns) <= MaxCols
  /\ Len(s.data) <= MaxRows
  /\ Len(s.data) * Len(s.columns) <= MaxCells
  /\ \A i \in 1..Len(s.data) :
       /\ Len(s.data[i]) <= Len(s.columns)
       /\ \A j \in 1..Len(s.data[i]) : Len(s.data[i][j]) <= MaxText
  /\ IF IsNone(s.copied_selection) THEN TRUE
     ELSE Len(s.copied_selection[1]) * Len(s.copied_selection[1][1]) <= MaxSelection

\* VimTable.__init__ and _setup_ui
Table_init(columns) ==
  [kind |-> "table", columns |-> columns, data |-> <<>>,
   currentRow |-> -1, currentColumn |-> -1,
   copied_row |-> None, copied_cell |-> None, copied_selection |-> None,
   pending_delete |-> FALSE, delete_elapsed |-> 0,
   pending_copy |-> FALSE, copy_elapsed |-> 0,
   edit_mode |-> FALSE, original_value |-> <<>>, editing |-> FALSE,
   visual_mode |-> FALSE, visual_line_mode |-> FALSE,
   visual_start_row |-> -1, visual_start_col |-> -1,
   visual_end_row |-> -1, visual_end_col |-> -1,
   clipboard |-> <<>>, cmd |-> <<>>]

InitTable ==
  /\ \E columns \in TableColumns : self = Table_init(columns)
  /\ last_cmd = NoCmd

IsTable == self.kind = "table"

\* The table can take a key or a call: no cell editor is open.
TableIdle == IsTable /\ ~self.editing

\* Of the table's key presses the history keeps the column commands, the
\* warnings of the delete commands, the moves to the left and to the right
\* and the pastes of a row and of a block.
column_notes(cmd) ==
  SelectSeq(cmd, LAMBDA n : n \in {"add_column", "delete_current_column",
                                   "warn_last_row", "warn_last_column",
                                   "move_cursor_left", "move_cursor_right",
                                   "paste_row", "paste_block"})

\* The table widget gets the keyboard focus.
TableFocusIn ==
  /\ TableIdle
  /\ self' = Table_focus_in(self)
  /\ UNCHANGED last_cmd

\* A key press reaches the event filter of the table widget.
TableKey ==
  /\ TableIdle
  /\ \E e \in TableKeys, inp \in HeaderInputs :
       /\ (e.key = "i" /\ e.shift) \/ inp = NoInput
       /\ LET s1 == Table_handle_key_event(self, e, inp)
          IN  /\ TableBounded(s1)
              /\ self' = settled(s1)
              /\ last_cmd' = [ev |-> <<"key">>, cmd |-> column_notes(s1.cmd)]

\* The user finishes the cell editor with Return: the delegate commits.
TableEditorCommit ==
  /\ IsTable /\ self.editing
  /\ self' = settled(Table_on_item_changed(self, <<"a">>))
  /\ UNCHANGED last_cmd

\* The user leaves the cell editor with Escape.
TableEditorCancel ==
  /\ IsTable /\ self.editing
  /\ self' = [self EXCEPT !.editing = FALSE]
  /\ UNCHANGED last_cmd

\* The 100 ms timer fires.
TableTick ==
  /\ IsTable
  /\ LET s1 == Table_check_pending_operations(self)
     IN  /\ self' = settled(s1)
         /\ UNCHANGED last_cmd

\* Half a second passes.
TableTime ==
  /\ IsTable
  /\ self' = Table_time_passes(self)
  /\ UNCHANGED last_cmd

TableSetData ==
  /\ TableIdle
  /\ \E data \in TableDatas :
       fits(self.columns, data) /\ self' = Table_set_data(self, data)
  /\ last_cmd' = ApiCmd

TableAddRow ==
  /\ TableIdle
  /\ \E cells \in TableRows :
       LET s1 == Table_add_row(self, cells) IN TableBounded(s1) /\ self' = s1
  /\ last_cmd' = ApiCmd

TableUpdateRowExternal ==
  /\ TableIdle
  /\ \E i \in 0..(MaxRows - 1), cells \in TableRows :
       /\ Len(cells) <= Len(self.columns)
       /\ self' = Table_update_row_external(self, i, cells)
  /\ last_cmd' = ApiCmd

TableUpdateCell ==
  /\ TableIdle
  /\ \E i \in 0..(MaxRows - 1), j \in 0..(MaxCols - 1) :
       self' = settled(Table_update_cell(self, i, j, <<"a">>))
  /\ last_cmd' = ApiCmd

TableClearData ==
  /\ TableIdle
  /\ self' = Table_clear_data(self)
  /\ last_cmd' = ApiCmd

NextTable ==
  \/ TableFocusIn
  \/ TableKey
  \/ TableEditorCommit
  \/ TableEditorCancel
  \/ TableTick
  \/ TableTime
  \/ TableSetData
  \/ TableAddRow
  \/ TableUpdateRowExternal
  \/ TableUpdateCell
  \/ TableClearData

SpecTable == InitTable /\ [][NextTable]_vars

(* ================= two lists made from one collection ================== *)
(* VimList.__init__ keeps the caller's list object (self.items = items or   *)
(* []); its handlers change self.items in place (insert, pop, item          *)
(* assignment).  Two widgets made from the same non-empty list hold the     *)
(* same object: aliased says so.  set_items stores a copy.                  *)

\* one = VimList(items); two = VimList(items): an empty list is replaced by
\* a new one in each constructor.
Pair_init(items) ==
  [kind |-> "pair", one |-> List_init("list", items), two |-> List_init("list", items),
   aliased |-> (items # <<>>)]

other(w) == IF w = "one" THEN "two" ELSE "one"

\* The pair after a handler of widget w has left it as s1: a change of the
\* list object made in place is a change of the other widget's self.items
\* when both hold the same object; its QListWidget is not rebuilt.
Pair_after(p, w, s1) ==
  [p EXCEPT ![w] = settled(s1),
            ![other(w)].items = IF p.aliased THEN s1.items ELSE @]

\* The keys pressed in the two lists.
PairKeys ==
  {Ev(k, FALSE) : k \in {"j", "k", "x", "o", "r"}} \cup {Ev("o", TRUE)}

\* Widget w can take the key: its QListWidget has a row for every item of
\* self.items, or the key is r, which rebuilds the rows.
Pair_can_press(p, w, e) == Len(p[w].view) = Len(p[w].items) \/ e.key = "r"

InitPair ==
  /\ \E items \in {<<>>, <<<<"a">>, <<"b">>>>} : self = Pair_init(items)
  /\ last_cmd = NoCmd

IsPair == self.kind = "pair"

\* A key press delivered to one of the two lists.
PairKey ==
  /\ IsPair
  /\ \E w \in {"one", "two"} : \E e \in PairKeys :
     \E inp \in (IF e.key = "o" THEN DialogInputs ELSE {NoInput}) :
       /\ Pair_can_press(self, w, e)
       /\ LET s1 == List_handle_key_event(self[w], e, inp)
          IN  /\ ListBounded(s1)
              /\ self' = Pair_after(self, w, s1)
              /\ last_cmd' = [ev |-> <<w>>, cmd |-> s1.cmd]

\* set_items on one of the two lists: the widget keeps a copy of its own.
PairSetItems ==
  /\ IsPair
  /\ \E w \in {"one", "two"} : \E items \in {<<>>, <<<<"b">>, <<"a">>>>} :
       self' = [self EXCEPT ![w] = settled(List_set_items(self[w], items)),
                            !.aliased = FALSE]
  /\ last_cmd' = ApiCmd

NextPair == PairKey \/ PairSetItems

SpecPair == InitPair /\ [][NextPair]_vars

(* ====================== the widgets side by side ======================= *)

\* What the user, the timer and the clock do to a widget that the host
\* application has constructed and then leaves to the user.
UserList == ListKey \/ ListEditText \/ ListTick \/ ListTime

UserTree ==
  TreeFocusIn \/ TreeKey \/ TreeEditorCommit \/ TreeEditorCancel \/ TreeTick \/ TreeTime

UserTable ==
  TableFocusIn \/ TableKey \/ TableEditorCommit \/ TableEditorCancel \/ TableTick
    \/ TableTime

\* The list widgets and the tree, which share the d, y and g chords, under
\* the keyboard.
SpecChords == (InitList \/ InitTree) /\ [][UserList \/ UserTree]_vars

\* The list widgets and the table under the keyboard.
SpecMoves == (InitList \/ InitTable) /\ [][UserList \/ UserTable]_vars

\* Every widget of the package under the keyboard.
SpecWidgets ==
  (InitList \/ InitTree \/ InitTable) /\ [][UserList \/ UserTree \/ UserTable]_vars

\* The list widgets with a timer that keeps firing and a clock that keeps
\* running: the QTimer started in __init__ fires every 100 ms for as long as
\* the widget lives.
SpecListFair == SpecList /\ WF_vars(ListTick) /\ WF_vars(ListTime)

(* ------------------------------ properties ----------------------------- *)

KeyD == Ev("d", FALSE)
KeyY == Ev("y", FALSE)
KeyP == Ev("p", FALSE)

\* The widget after the key press e (no dialog involved).
press(s, e) == settled(List_handle_key_event(s, e, NoInput))

\* The tree after the key press e.
tree_press(s, e) ==
  tree_settled(Tree_handle_key_event(s, e,
                 [accepted |-> FALSE, value |-> <<>>, ub |-> "crash"]))

\* The widget after the timer slot has run.
tick(s) == settled(List_check_pending_operations(s))

\* The position and the present value of the cursor.
has_cursor(s) == 0 <= s.currentRow /\ s.currentRow < Len(s.items)
cursor_item(s) == s.items[s.currentRow + 1]

\* The handler left the note n.
has(cmd, n) == \E i \in 1..Len(cmd) : cmd[i] = n

\* The tree as an outline: depth and text of every node, parents first.
RECURSIVE outline(_, _)
outline(f, depth) ==
  IF f = <<>> THEN <<>>
  ELSE <<<<depth, Head(f).text>>>> \o outline(Head(f).children, depth + 1)
       \o outline(Tail(f), depth)

\* seq without the n elements from position i on.
without_block(seq, i, n) == SubSeq(seq, 1, i - 1) \o SubSeq(seq, i + n, Len(seq))

\* The delete chord is pending and still within its 1.0 s, with the cursor on
\* an item of the list ...
ListChordOpen ==
  /\ IsList /\ self.pending_delete /\ self.delete_elapsed <= PendingTimeout
  /\ has_cursor(self)
\* ... or on a node of the tree.
TreeChordOpen ==
  /\ TreeIdle /\ self.pending_delete /\ self.delete_elapsed <= PendingTimeout
  /\ in_tree(self, self.current)

C2_ExpiredChordRestarts ==
  (IsList /\ self.pending_delete /\ self.delete_elapsed > PendingTimeout) =>
    \A s0 \in {self, tick(self)} :
      LET s1 == press(s0, KeyD)
      IN  /\ s1.items = self.items
          /\ s1.currentRow = self.currentRow
          /\ s1.pending_delete /\ s1.delete_elapsed = 0

\* The second d arrived after the timeout and before the timer slot: the key
\* handler dropped the old chord and started a new one.
C2_Witness ==
  /\ IsList
  /\ last_cmd = [ev |-> <<"d">>, cmd |-> <<"expire_delete", "start_delete">>]
  /\ self.pending_delete /\ self.delete_elapsed = 0
  /\ Len(self.items) > 0

\* C3: a copy chord that has timed out is committed by whatever ends it, the
\* timer slot or a key press: once the chord is over, the register holds the
\* item at the cursor.
C3_TimedOutCopyCommitted ==
  [][ ( /\ IsList
        /\ self.pending_copy /\ self.copy_elapsed > PendingTimeout
        /\ has_cursor(self)
        /\ ~self'.pending_copy )
      => self'.copied_item = Some(cursor_item(self)) ]_vars

\* C4: a pending delete chord does not stay: it grows older, and once it is
\* older it is eventually over, swept by the timer unless a key press ends it
\* first (a late d drops it and starts a new one, of age 0).  Neither the d
\* that starts a chord nor the sweep touches the model, the cursor or the
\* register.
C4_TimedOutDeleteDiscarded ==
  /\ (IsList /\ self.pending_delete /\ self.delete_elapsed = 0)
       ~> (~self.pending_delete \/ self.delete_elapsed > 0)
  /\ (IsList /\ self.pending_delete /\ self.delete_elapsed > 0)
       ~> (~self.pending_delete \/ self.delete_elapsed = 0)
  /\ [][ ( /\ IsList
           /\ \/ ~self.pending_delete /\ self'.pending_delete
              \/ /\ self.pending_delete /\ ~self'.pending_delete
                 /\ last_cmd'.ev = <<"tick">> )
         => /\ self'.items = self.items
            /\ self'.currentRow = self.currentRow
            /\ self'.copied_item = self.copied_item ]_vars

\* The timer slot has just swept a timed-out delete chord.
C4_Witness ==
  /\ IsList
  /\ last_cmd = [ev |-> <<"tick">>, cmd |-> <<"sweep_delete">>]
  /\ ~self.pending_delete
  /\ Len(self.items) > 0

\* C5: a chord key (d, y, g) pressed right after a different key never
\* completes a chord: it deletes nothing, copies nothing and does not go to
\* the first item.
C5_OtherKeyInvalidatesChord ==
  [][ ( /\ IsList
        /\ last_cmd.ev = <<"other">>
        /\ last_cmd'.ev \in {<<"d">>, <<"y">>, <<"g">>} )
      => /\ ~has(last_cmd'.cmd, "delete_current_item")
         /\ ~has(last_cmd'.cmd, "copy_current_item")
         /\ ~has(last_cmd'.cmd, "go_to_first") ]_vars

\* C6: in the list and the multimedia list, after any sequence of key
\* commands and API calls, either the model is empty and there is no current
\* row, or the current row is an index of the model.
C6_ListCursorValid ==
  IsList =>
    \/ Len(self.items) = 0 /\ self.currentRow = -1
    \/ 0 <= self.currentRow /\ self.currentRow <= Len(self.items) - 1

\* A row was deleted and the cursor sits on the last row that is left.
C6_Witness ==
  /\ IsList
  /\ last_cmd.cmd = <<"delete_current_item">>
  /\ Len(self.items) > 0
  /\ self.currentRow = Len(self.items) - 1

\* C7: in the tree, after dd or x the cursor is absent and the tree empty, or
\* the cursor is a node of the tree.
C7_TreeCursorAfterDelete ==
  (IsTree /\ ~self.crashed /\ has(last_cmd.cmd, "delete_current_node")) =>
    \/ self.roots = <<>> /\ self.current = <<>>
    \/ in_tree(self, self.current)

\* C8: in the table, whenever there is at least one row and one column the
\* cursor is a cell of the table; it is absent only when the model is empty.
C8_TableCursorValid ==
  IsTable =>
    /\ (rowCount(self) >= 1 /\ columnCount(self) >= 1) =>
         /\ 0 <= self.currentRow /\ self.currentRow < rowCount(self)
         /\ 0 <= self.currentColumn /\ self.currentColumn < columnCount(self)
    /\ (self.currentRow = -1 \/ self.currentColumn = -1) =>
         (rowCount(self) = 0 \/ columnCount(self) = 0)

\* C9: after add-column-right, add-column-end or delete-column every row has
\* as many cells as there are columns.
C9_RowsMatchColumns ==
  (IsTable /\ last_cmd.cmd \in {<<"add_column">>, <<"delete_current_column">>}) =>
    \A i \in 1..Len(self.data) : Len(self.data[i]) = Len(self.columns)

\* The list takes yy and p as commands: no chord is pending and no mode is on.
ListNormal ==
  /\ IsList /\ self.kind = "list"
  /\ ~self.search_mode /\ ~self.visual_mode
  /\ ~self.pending_delete /\ ~self.pending_copy
  /\ has_cursor(self)

\* C10: in the list, yy and then p on a model of size N with the cursor at c
\* gives a model of size N+1 with the yanked value at c+1 and the other
\* elements in their order; a second p gives size N+2 with a second copy
\* right after the first.
C10_YankPasteBelow ==
  ListNormal =>
    LET c == self.currentRow
        N == Len(self.items)
        v == cursor_item(self)
        s1 == press(press(self, KeyY), KeyY)
        s2 == press(s1, KeyP)
        s3 == press(s2, KeyP)
    IN  /\ s1.items = self.items
        /\ Len(s2.items) = N + 1
        /\ s2.items[c + 2] = v
        /\ \A i \in 1..(c + 1) : s2.items[i] = self.items[i]
        /\ \A i \in (c + 2)..N : s2.items[i + 1] = self.items[i]
        /\ Len(s3.items) = N + 2
        /\ s3.items[c + 2] = v /\ s3.items[c + 3] = v
        /\ \A i \in 1..(c + 1) : s3.items[i] = self.items[i]
        /\ \A i \in (c + 2)..N : s3.items[i + 2] = self.items[i]
        /\ s3.copied_item = Some(v)

\* yy, p, p on a one-item list: three equal items, the cursor on the last.
C10_Witness ==
  /\ IsList /\ self.kind = "list"
  /\ last_cmd = [ev |-> <<"p">>, cmd |-> <<"paste_below">>]
  /\ Len(self.items) = 3
  /\ ~IsNone(self.copied_item)
  /\ \A i \in 1..3 : self.items[i] = self.copied_item[1]
  /\ self.currentRow = 2

(* ------------------------- properties of the table --------------------- *)

\* The table after the key press e (no dialog involved).
table_press(s, e) == settled(Table_handle_key_event(s, e, NoInput))

\* The table takes a key as a command: no editor is open, no chord is
\* pending, no visual mode is on, and the cursor is on a cell of the model.
TableNormal ==
  /\ TableIdle
  /\ ~self.visual_mode /\ ~self.visual_line_mode
  /\ ~self.pending_delete /\ ~self.pending_copy
  /\ in_data(self, self.currentRow, self.currentColumn)

\* C11: in the table, yy on row r and then p inserts a copy of row r at index
\* r+1: one row more, the new row equal to the yanked one cell for cell, and
\* every other row as it was.  (No block is in the block register.)
C11_YankPasteRow ==
  (TableNormal /\ IsNone(self.copied_selection)) =>
    LET r == self.currentRow
        N == Len(self.data)
        s2 == table_press(table_press(table_press(self, KeyY), KeyY), KeyP)
    IN  /\ Len(s2.data) = N + 1
        /\ s2.data[r + 2] = self.data[r + 1]
        /\ \A i \in 1..(r + 1) : s2.data[i] = self.data[i]
        /\ \A i \in (r + 2)..N : s2.data[i + 1] = self.data[i]

\* C12: in the table at most one of the row register, the cell register and
\* the block register is set at any time.
C12_OneRegister ==
  IsTable =>
    Cardinality({i \in 1..3 :
                   ~IsNone(<<self.copied_row, self.copied_cell,
                             self.copied_selection>>[i])}) <= 1

\* C13: whenever the register holds a yanked payload, p inserts that payload
\* whatever text the system clipboard holds at that moment: the copied item
\* in the list, the copied row in the table.
C13_RegisterBeforeClipboard ==
  \A clip \in ClipboardTexts :
    /\ (ListNormal /\ ~IsNone(self.copied_item)) =>
         LET c == self.currentRow
             s2 == press([self EXCEPT !.clipboard = clip], KeyP)
         IN  /\ Len(s2.items) = Len(self.items) + 1
             /\ s2.items[c + 2] = self.copied_item[1]
    /\ (/\ TableNormal
        /\ ~IsNone(self.copied_row) /\ self.copied_row[1] # <<>>
        /\ IsNone(self.copied_cell) /\ IsNone(self.copied_selection)) =>
         LET r == self.currentRow
             s2 == table_press([self EXCEPT !.clipboard = clip], KeyP)
         IN  /\ Len(s2.data) = Len(self.data) + 1
             /\ \A j \in 1..Len(self.columns) :
                  j <= Len(self.copied_row[1])
                    => s2.data[r + 2][j] = self.copied_row[1][j]

(* ------------------------- properties of the search -------------------- *)

KeyReturn == Ev("Return", FALSE)

KeyN == Ev("n", FALSE)

KeyShiftN == Ev("n", TRUE)

\* C14: after Enter in Search mode with a text that matches the items at
\* i1 < ... < ik, the cursor is at i1, n moves it to the next match (from ik
\* round to i1) and N to the previous one (from i1 round to ik).
C14_SearchMatchesRemembered ==
  (IsList /\ self.search_mode /\ self.search_text # <<>>) =>
    LET m == matches(self, lower(self.search_text), 0, Len(self.items))
        k == Len(m)
        s1 == press(self, KeyReturn)
    IN  k >= 1 =>
          /\ s1.currentRow = m[1]
          /\ press(s1, KeyN).currentRow = m[(1 % k) + 1]
          /\ press(s1, KeyShiftN).currentRow = m[k]
          /\ press(press(s1, KeyN), KeyShiftN).currentRow = m[1]

\* The item of the list shown as text.
shown(s, i) == lower(item_text(s, s.items[i + 1]))

\* C15: Enter in Search mode with a non-empty buffer leaves Search mode and
\* leaves the model as it is; if an item's text contains the buffer, case
\* ignored, the cursor is on the first such item (in the tree: the first in
\* traversal order), and if none does a notice is shown and the cursor stays.
C15_ExecuteSearch ==
  /\ (IsList /\ self.search_mode /\ self.search_text # <<>>) =>
       LET sub == lower(self.search_text)
           hits == {i \in 0..(Len(self.items) - 1) : contains(shown(self, i), sub)}
           r == List_handle_key_event(self, KeyReturn, NoInput)
       IN  /\ ~r.search_mode /\ ~r.visual_mode
           /\ r.items = self.items
           /\ hits # {} => /\ r.currentRow \in hits
                           /\ \A i \in hits : r.currentRow <= i
           /\ hits = {} => /\ has(r.cmd, "search_no_results")
                           /\ r.currentRow = self.currentRow
  /\ (TreeIdle /\ self.search_mode /\ self.search_text # <<>>) =>
       LET sub == lower(self.search_text)
           a == all_items(self)
           hits == {i \in 1..Len(a) :
                      contains(lower(get_node(self.roots, a[i]).text), sub)}
           r == Tree_handle_key_event(self, KeyReturn,
                  [accepted |-> FALSE, value |-> <<>>, ub |-> "crash"])
       IN  /\ ~r.crashed
           /\ ~r.search_mode /\ ~r.visual_mode
           /\ r.tree_data = self.tree_data
           /\ outline(r.roots, 0) = outline(self.roots, 0)
           /\ hits # {} => \E i \in hits : /\ r.current = a[i]
                                           /\ \A j \in hits : i <= j
           /\ hits = {} => /\ has(r.cmd, "search_no_results")
                           /\ r.current = self.current

\* A search has been executed in a list and has moved the cursor down to the
\* first match.
C15_Witness ==
  /\ IsList /\ ~self.search_mode
  /\ has(last_cmd.cmd, "search_found")
  /\ self.currentRow > 0
  /\ \A i \in 0..(self.currentRow - 1) : shown(self, i) # shown(self, self.currentRow)

KeyC == Ev("c", FALSE)

\* The table takes a key as the first key of a chord.
TableCommand ==
  /\ TableIdle /\ ~self.edit_mode
  /\ ~self.visual_mode /\ ~self.visual_line_mode
  /\ ~self.pending_delete /\ ~self.pending_copy

\* C16: dd on a table with exactly one row leaves the one row and every cell
\* as they are and shows a warning, dc on a table with exactly one column
\* leaves the one column and every cell as they are and shows a warning, and
\* both clear the pending delete.
C16_LastRowColumnKept ==
  TableCommand =>
    LET s1 == table_press(self, KeyD)
        sd == Table_handle_key_event(s1, KeyD, NoInput)
        sc == Table_handle_key_event(s1, KeyC, NoInput)
    IN  /\ s1.pending_delete
        /\ Len(self.data) = 1 =>
             /\ sd.data = self.data /\ sd.columns = self.columns
             /\ has(sd.cmd, "warn_last_row")
             /\ ~sd.pending_delete
        /\ Len(self.columns) = 1 =>
             /\ sc.columns = self.columns /\ sc.data = self.data
             /\ has(sc.cmd, "warn_last_column")
             /\ ~sc.pending_delete

\* dd has been pressed with the cursor on the only row of a table.
C16_Witness ==
  /\ IsTable /\ has(last_cmd.cmd, "warn_last_row")
  /\ Len(self.data) = 1 /\ self.data[1] # <<>>
  /\ in_data(self, self.currentRow, self.currentColumn)
  /\ ~self.pending_delete

(* ------------------- properties of the list's editing ------------------ *)

KeyX == Ev("x", FALSE)

KeyO == Ev("o", FALSE)

KeyShiftO == Ev("o", TRUE)

\* What o (below = TRUE) or O does with the dialog input inp when the value v
\* is to be inserted: v is at c+1, or at c, in a model one longer, the other
\* items are in their order, the cursor is on v, and item_added was emitted
\* once, with the index and v.
inserts(below, inp, v) ==
  LET c == self.currentRow
      N == Len(self.items)
      at == IF below THEN c + 1 ELSE c
      r == List_handle_key_event(self, IF below THEN KeyO ELSE KeyShiftO, inp)
  IN  /\ Len(r.items) = N + 1
      /\ r.items[at + 1] = v
      /\ \A i \in 1..at : r.items[i] = self.items[i]
      /\ \A i \in (at + 1)..N : r.items[i + 1] = self.items[i]
      /\ r.currentRow = at
      /\ r.emitted = << <<at, v>> >>

Entered == [accepted |-> TRUE, value |-> <<"b", " ">>]

\* C19: on an empty model, with no cursor, o and O with a non-empty value
\* confirmed (the table asks for none) leave the model with exactly one item,
\* in the list, the multimedia list, the table and the tree.
C19_FirstItem ==
  \A shift \in BOOLEAN :
    /\ (/\ IsList /\ ~self.search_mode /\ ~self.visual_mode /\ ~self.edit_mode
        /\ ~self.pending_delete /\ ~self.pending_copy
        /\ self.items = <<>> /\ self.currentRow = -1) =>
         Len(List_handle_key_event(self, Ev("o", shift), Entered).items) = 1
    /\ (TableCommand /\ self.data = <<>> /\ self.currentRow = -1) =>
         Len(Table_handle_key_event(self, Ev("o", shift), NoInput).data) = 1
    /\ (/\ TreeIdle /\ ~self.search_mode /\ ~self.visual_mode /\ ~self.edit_mode
        /\ ~self.pending_delete /\ ~self.pending_copy
        /\ self.roots = <<>> /\ self.current = <<>>) =>
         count_nodes(Tree_handle_key_event(self, Ev("o", shift),
           [accepted |-> TRUE, value |-> Entered.value, ub |-> "crash"]).roots) = 1

(* ----------------------- the moves of the cursor ----------------------- *)

\* The list takes a key as a command and has a current row.
ListCommand ==
  /\ IsList /\ ~self.edit_mode /\ ~self.search_mode /\ ~self.visual_mode
  /\ ~self.pending_delete /\ ~self.pending_copy
  /\ 0 <= self.currentRow /\ self.currentRow < Len(self.view)

\* i one step further within 0..(n - 1), and where it is at the end.
step_up(i, n) == IF i < n - 1 THEN i + 1 ELSE i

step_down(i) == IF i > 0 THEN i - 1 ELSE i

\* C20: the movement commands do not wrap around and do not change the model:
\* j on the last and k on the first position leave the cursor where it is,
\* every other j and k moves it by one step, and in the table h and l do the
\* same to the column while the row stays.
C20_MovesDoNotWrap ==
  /\ ListCommand =>
       LET rj == List_handle_key_event(self, Ev("j", FALSE), NoInput)
           rk == List_handle_key_event(self, Ev("k", FALSE), NoInput)
       IN  /\ rj.items = self.items /\ rk.items = self.items
           /\ rj.currentRow = step_up(self.currentRow, Len(self.view))
           /\ rk.currentRow = step_down(self.currentRow)
  /\ (TableCommand /\ self.currentRow >= 0 /\ self.currentColumn >= 0) =>
       LET rh == Table_handle_key_event(self, Ev("h", FALSE), NoInput)
           rj == Table_handle_key_event(self, Ev("j", FALSE), NoInput)
           rk == Table_handle_key_event(self, Ev("k", FALSE), NoInput)
           rl == Table_handle_key_event(self, Ev("l", FALSE), NoInput)
       IN  /\ \A r \in {rh, rj, rk, rl} :
                r.data = self.data /\ r.columns = self.columns
           /\ rj.currentRow = step_up(self.currentRow, rowCount(self))
           /\ rk.currentRow = step_down(self.currentRow)
           /\ rj.currentColumn = self.currentColumn
           /\ rk.currentColumn = self.currentColumn
           /\ rl.currentColumn = step_up(self.currentColumn, columnCount(self))
           /\ rh.currentColumn = step_down(self.currentColumn)
           /\ rl.currentRow = self.currentRow
           /\ rh.currentRow = self.currentRow

\* l has been pressed in a table with two columns and the cursor is on the
\* second column of the row it was on.
C20_Witness ==
  /\ IsTable /\ last_cmd = [ev |-> <<"key">>, cmd |-> <<"move_cursor_right">>]
  /\ rowCount(self) = 1 /\ columnCount(self) = 2
  /\ self.currentRow = 0 /\ self.currentColumn = 1

(* ------------------------------ gg and G ------------------------------- *)

KeyG == Ev("g", FALSE)

KeyShiftG == Ev("g", TRUE)

\* C21: on a non-empty list a g less than 0.5 s after a g moves the cursor to
\* index 0 and clears the pending g; a g that comes 0.5 s or more after the
\* first leaves the cursor where it is and starts a new window; Shift+G moves
\* the cursor to the last index; none of them changes the model.
C21_GGAndShiftG ==
  (ListCommand /\ Len(self.items) > 0) =>
    LET g1 == press(self, KeyG)
        gg == press([self EXCEPT !.pending_g = -1], KeyG)
        soon == press(gg, KeyG)
        late == press(time_passes(gg), KeyG)
        last == press(self, KeyShiftG)
    IN  /\ gg.pending_g = 0 /\ gg.currentRow = self.currentRow
        /\ soon.currentRow = 0 /\ soon.pending_g = -1
        /\ late.currentRow = self.currentRow /\ late.pending_g = 0
        /\ (self.pending_g >= 0 /\ self.pending_g < GTimeout) =>
             (g1.currentRow = 0 /\ g1.pending_g = -1)
        /\ self.pending_g >= GTimeout =>
             (g1.currentRow = self.currentRow /\ g1.pending_g = 0)
        /\ last.currentRow = Len(self.items) - 1
        /\ \A r \in {g1, gg, soon, late, last} : r.items = self.items

\* The second g of gg came in time on a list of two items or more: the
\* cursor is on the first item and no g is pending.
C21_Witness ==
  /\ IsList /\ last_cmd.ev = <<"g">> /\ has(last_cmd.cmd, "go_to_first")
  /\ Len(self.items) >= 2 /\ self.currentRow = 0 /\ self.pending_g = -1

(* ------------------------- h and l in the tree -------------------------- *)

KeyH == Ev("h", FALSE)

KeyL == Ev("l", FALSE)

\* The tree takes a key as a command and has a current item in the tree.
TreeCommand ==
  /\ TreeIdle /\ ~self.edit_mode /\ ~self.search_mode /\ ~self.visual_mode
  /\ ~self.pending_delete /\ ~self.pending_copy
  /\ self.current # <<>> /\ self.current # Dangling

\* C22: in the tree l on a collapsed node with children expands it and leaves
\* the cursor, on an expanded node with children moves the cursor to its
\* first child, and on a leaf does nothing; h on an expanded node with
\* children collapses it and leaves the cursor, otherwise moves the cursor to
\* the parent, and on a root node that is not expanded does nothing.  Neither
\* key changes the nodes of the tree.
C22_LeftRight ==
  TreeCommand =>
    LET n == get_node(self.roots, self.current)
        rl == tree_press(self, KeyL)
        rh == tree_press(self, KeyH)
    IN  /\ IF Len(n.children) > 0 /\ ~n.expanded
           THEN rl = [self EXCEPT !.roots = set_expanded(@, self.current, TRUE)]
           ELSE IF Len(n.children) > 0
           THEN rl.current = self.current \o <<1>> /\ rl.roots = self.roots
           ELSE rl = self
        /\ IF n.expanded /\ Len(n.children) > 0
           THEN rh = [self EXCEPT !.roots = set_expanded(@, self.current, FALSE)]
           ELSE IF Len(self.current) > 1
           THEN rh.current = parent_path(self.current) /\ rh.roots = self.roots
           ELSE rh = self
        /\ outline(rl.roots, 0) = outline(self.roots, 0)
        /\ outline(rh.roots, 0) = outline(self.roots, 0)

\* l on the expanded first root has put the cursor on its first child.
C22_Witness ==
  /\ TreeCommand /\ last_cmd.cmd = <<"move_right">>
  /\ self.current = <<1, 1>> /\ get_node(self.roots, <<1>>).expanded

(* ------------------------------- refresh -------------------------------- *)

KeyR == Ev("r", FALSE)

\* C23: r is idempotent in every reachable state: after any commands, the
\* additions, deletions, pastes and edits of tree nodes among them, r leaves
\* the displayed nodes as they were just before it and leaves the cursor on
\* the node it was on.
C23_RefreshIdempotent ==
  (TreeIdle /\ ~self.edit_mode /\ ~self.search_mode /\ ~self.visual_mode
     /\ ~self.pending_delete /\ ~self.pending_copy /\ self.current # Dangling) =>
    LET r == tree_press(self, KeyR)
    IN  /\ outline(r.roots, 0) = outline(self.roots, 0)
        /\ r.current = self.current

(* ---------------------------- visual delete ----------------------------- *)

\* The list is in Visual mode and takes a key as a command of that mode; the
\* anchor is an item of the model and the selection ends on the current row.
ListVisual ==
  /\ IsList /\ self.visual_mode /\ ~self.edit_mode /\ ~self.search_mode
  /\ 0 <= self.visual_start /\ self.visual_start < Len(self.items)
  /\ self.visual_end = self.currentRow /\ has_cursor(self)

TableVisual ==
  /\ TableIdle /\ ~self.edit_mode
  /\ self.visual_mode \/ self.visual_line_mode
  /\ \A r \in {self.visual_start_row, self.visual_end_row} : 0 <= r /\ r < rowCount(self)

\* C25: the delete key in Visual and VisualLine mode removes the whole
\* selection before the widget is back in Normal mode; in the table d in
\* VisualLine mode removes the selected rows and d in Visual mode removes the
\* selected cells.
C25_VisualDeleteThenNormal ==
  TableVisual =>
    LET lo == Min(self.visual_start_row, self.visual_end_row)
        hi == Max(self.visual_start_row, self.visual_end_row)
        r == table_press(self, KeyD)
    IN  /\ ~r.visual_mode /\ ~r.visual_line_mode
        /\ self.visual_line_mode => r.data = without_block(self.data, lo + 1, hi - lo + 1)
        /\ (self.visual_mode /\ \E i \in lo..hi : \E j \in 1..Len(self.data[i + 1]) :
                                   self.data[i + 1][j] # <<>>) =>
             r.data # self.data

(* ----------------------- the range outside Visual ----------------------- *)

\* C26: in every reachable state in which the widget is not in Visual or
\* VisualLine mode the stored range is the empty value: start and end -1 in
\* the list widgets, the four coordinates -1 in the table, no start and no end
\* item in the tree; whether the mode was left by Escape, by yank or by delete.
C26_RangeClearedOutsideVisual ==
  /\ (IsList /\ ~self.visual_mode) =>
       (self.visual_start = -1 /\ self.visual_end = -1)
  /\ (IsTable /\ ~self.visual_mode /\ ~self.visual_line_mode) =>
       /\ self.visual_start_row = -1 /\ self.visual_start_col = -1
       /\ self.visual_end_row = -1 /\ self.visual_end_col = -1
  /\ (IsTree /\ ~self.visual_mode) =>
       (~self.visual_start_item /\ ~self.visual_end_item)

\* y has left the Visual mode of a list with the selection in the register,
\* and the range is empty.
C26_Witness ==
  /\ IsList /\ last_cmd = [ev |-> <<"y">>, cmd |-> <<"copy_visual_selection">>]
  /\ ~self.visual_mode /\ self.visual_start = -1 /\ self.visual_end = -1
  /\ self.copied_item # None

(* --------------------- keys in Search and in Visual --------------------- *)

\* The keys of the command grammar that Search mode takes as text.
LiteralKeys(keys) == {e \in keys : e.key \notin {"Escape", "Return", "Backspace"}}

\* The add, paste, edit and search keys.
NormalOnlyKeys == {Ev(k, sh) : k \in {"o", "p"}, sh \in BOOLEAN} \cup {Ev("i", FALSE), Ev("/", FALSE)}

\* What Search mode must leave alone: cursor, register and pending chords.
frame(s) ==
  <<s.copied_item, s.clipboard, s.pending_delete, s.delete_elapsed,
    s.pending_copy, s.copy_elapsed, s.pending_g, s.visual_mode, s.edit_mode>>

C28_OwnModel ==
  IsPair =>
    \A w \in {"one", "two"} : \A e \in PairKeys : \A inp \in DialogInputs :
      Pair_can_press(self, w, e) =>
        Pair_after(self, w, List_handle_key_event(self[w], e, inp))[other(w)].items
          = self[other(w)].items

(* --------------------------- rows too short ----------------------------- *)

\* C29: no public API operation indexes the model out of range: in every
\* reachable state, the tables with rows of fewer cells than columns among
\* them, update_cell_external on any position either changes an existing cell
\* or does nothing.
C29_NoIndexOutOfRange ==
  TableIdle =>
    \A i \in 0..(MaxRows - 1), j \in 0..(MaxCols - 1) :
      ~has(Table_update_cell(self, i, j, <<"a">>).cmd, "IndexError")

(* ------------------------ paste with nothing copied --------------------- *)

\* The texts of a system clipboard that holds nothing to paste.
BlankClipboards == {<<>>, <<" ">>}

\* C30: p and P with an empty register and a system clipboard that holds no
\* text or only whitespace show the notice and leave the model, the cursor
\* and the register as they are; no item_added is emitted.
C30_PasteNothing ==
  \A c \in BlankClipboards : \A sh \in BOOLEAN :
    LET s0 == [self EXCEPT !.clipboard = c] IN
    /\ (ListCommand /\ IsNone(self.copied_item)) =>
         LET r == List_handle_key_event(s0, Ev("p", sh), NoInput)
         IN  /\ r.cmd = <<"paste_nothing">> /\ r.emitted = <<>>
             /\ settled(r) = s0
    /\ (TableCommand /\ IsNone(self.copied_selection) /\ IsNone(self.copied_cell)
          /\ (IsNone(self.copied_row) \/ self.copied_row[1] = <<>>)) =>
         LET r == Table_handle_key_event(s0, Ev("p", sh), NoInput)
         IN  /\ r.cmd = <<"paste_nothing">>
             /\ settled(r) = s0
    /\ (TreeIdle /\ ~self.edit_mode /\ ~self.search_mode /\ ~self.visual_mode
          /\ ~self.pending_delete /\ ~self.pending_copy /\ IsNone(self.copied_item)) =>
         LET r == Tree_handle_key_event(s0, Ev("p", sh),
                    [accepted |-> FALSE, value |-> <<>>, ub |-> "crash"])
         IN  /\ r.cmd = <<"paste_nothing">>
             /\ settled(r) = s0

\* p has been pressed in a list with items, an empty register and an empty
\* clipboard: the notice was shown and the register is still empty.
C30_Witness ==
  /\ IsList /\ last_cmd = [ev |-> <<"p">>, cmd |-> <<"paste_nothing">>]
  /\ Len(self.items) >= 2 /\ IsNone(self.copied_item) /\ self.clipboard = <<>>
  /\ has_cursor(self)

\* ---------------------------------------------------------------------------
\* Leaving Insert mode

\* How often a note occurs among the notes of a command.
times(cmd, n) == Len(SelectSeq(cmd, LAMBDA x : x = n))

\* The notes of the tree's handler for one key.
tree_notes(s, e) ==
  Tree_handle_key_event(s, e, [accepted |-> FALSE, value |-> <<>>, ub |-> "crash"]).cmd

\* The item editor has just committed and the tree is still in Insert mode.
TreeCommitted ==
  /\ TreeIdle /\ self.edit_mode /\ last_cmd.ev = <<"commit">>
  /\ in_tree(self, self.current)

\* C31: in the tree, confirming an edit (the editor commits, then Return leaves
\* Insert mode) emits node_edited exactly once when the committed text differs
\* from the text snapshotted on entry and not at all when it is equal.
C31_EditedOnce ==
  TreeCommitted =>
    times(last_cmd.cmd \o tree_notes(self, KeyReturn), "node_edited")
      = (IF get_node(self.roots, self.current).text # self.original_value THEN 1 ELSE 0)

\* ---------------------------------------------------------------------------
\* Yank and paste in the tree

\* The tree takes a Normal-mode command and its current item, if any, is alive.
TreePlain ==
  /\ TreeIdle /\ ~self.edit_mode /\ ~self.search_mode /\ ~self.visual_mode
  /\ ~self.pending_delete /\ ~self.pending_copy /\ self.current # Dangling

\* The tree handler's result for p, its notes kept.
tree_paste(s) ==
  Tree_handle_key_event(s, KeyP, [accepted |-> FALSE, value |-> <<>>, ub |-> "crash"])

\* yy has just stored the current node with its descendants.
Yanked ==
  (TreeIdle /\ has(last_cmd.cmd, "copy_current_node")) =>
    self.copied_item = Some(Tree_copy_tree_item(get_node(self.roots, self.current)))

\* p appends the stored subtree to the current node, or to the root level.
Pasted ==
  (TreePlain /\ ~IsNone(self.copied_item)) =>
    LET d == self.copied_item[1]
        rp == tree_paste(self)
        new == new_child_path(self, self.current)
    IN  /\ rp.current = new
        /\ Tree_copy_tree_item(get_node(rp.roots, new)) = d
        /\ times(rp.cmd, "node_added") = count_nodes(<<d>>)
        /\ Len(children_of(rp.roots, self.current))
             = Len(children_of(self.roots, self.current)) + 1
        /\ outline(put_children(rp.roots, self.current,
                                children_of(self.roots, self.current)), 0)
             = outline(self.roots, 0)
        /\ rp.copied_item = self.copied_item

\* Only a copy of the current node (the second y of yy, the y of Visual mode,
\* a lone y that timed out) changes the stored subtree.
RegisterKept ==
  (TreeIdle /\ ~IsNone(self.copied_item) /\ self.current # Dangling) =>
    /\ \A e \in TreeKeys \cup TreeSearchKeys, inp \in TreeDialogInputs :
         LET r == Tree_handle_key_event(self, e,
                    [accepted |-> inp.accepted, value |-> inp.value, ub |-> "crash"])
         IN  r.copied_item = self.copied_item \/ has(r.cmd, "copy_current_node")
    /\ LET r == Tree_check_pending_operations(self, "crash")
       IN  r.copied_item = self.copied_item \/ has(r.cmd, "copy_current_node")

KeyShiftP == Ev("p", TRUE)

\* C33: in the table Shift+P pastes above the cursor: when it inserts a row,
\* the former current row is pushed down by one (the new row takes the cursor
\* index).
C33_TablePasteAbove ==
  (TableNormal /\ ~self.edit_mode) =>
    LET r == table_press(self, KeyShiftP)
    IN  Len(r.data) = Len(self.data) + 1
          => r.data[self.currentRow + 2] = self.data[self.currentRow + 1]

\* ---------------------------------------------------------------------------
\* The width of pasted rows

\* p pastes a row: no block and no cell is stored and the clipboard text has
\* a tab and no line break, or is blank beside a stored row.
PastesRow(s) ==
  LET c == strip(s.clipboard)
  IN  /\ IsNone(s.copied_selection) /\ IsNone(s.copied_cell)
      /\ ~has_char(c, "\n")
      /\ has_char(c, "\t") \/ (c = <<>> /\ ~IsNone(s.copied_row) /\ s.copied_row[1] # <<>>)

\* The fields of the row that p pastes.
paste_fields(s) ==
  IF has_char(strip(s.clipboard), "\t") THEN split(strip(s.clipboard), "\t")
  ELSE s.copied_row[1]

\* p pastes a block: one is stored, or no cell is stored and the clipboard
\* text has a line break.
PastesBlock(s) ==
  /\ s.currentRow >= 0 /\ s.currentColumn >= 0
  /\ \/ ~IsNone(s.copied_selection)
     \/ IsNone(s.copied_cell) /\ has_char(strip(s.clipboard), "\n")

\* Blocks of one row of two cells and of two rows of one cell.
PasteBlocks == { << <<<<"a">>, <<"b">>>> >>, << <<<<"a">>>>, <<<<"b">>>> >> }

\* A block paste that led from s to r wrote no cell beyond the last column,
\* shortened no row, and appended only rows of the full width.
BlockFits(s, r) ==
  LET n == Len(s.columns)
      N == Len(s.data)
  IN  /\ r.columns = s.columns
      /\ Len(r.data) >= N
      /\ \A i \in (N + 1)..Len(r.data) : Len(r.data[i]) = n
      /\ \A i \in 1..N :
           /\ Len(r.data[i]) >= Len(s.data[i])
           /\ Len(r.data[i]) > Len(s.data[i]) => Len(r.data[i]) <= n
           /\ \A c \in (n + 1)..Len(s.data[i]) : r.data[i][c] = s.data[i][c]

\* C34: in the table a paste never changes the columns; a pasted row is
\* padded with empty cells or cut to the number of columns and every other
\* row stays as it is; a block paste, of the stored block or of a block of
\* two cells, writes no cell beyond the last column and every row it appends
\* has exactly as many cells as there are columns.
C34_PasteWidth ==
  TableCommand =>
    LET r == table_press(self, KeyP)
        n == Len(self.columns)
        N == Len(self.data)
    IN  /\ r.columns = self.columns
        /\ PastesRow(self) =>
             LET at == IF self.currentRow >= 0 /\ self.currentRow + 1 <= N
                       THEN self.currentRow + 1 ELSE N
                 src == paste_fields(self)
             IN  /\ Len(r.data) = N + 1
                 /\ r.data[at + 1] = SubSeq(src \o empty_cells(n), 1, n)
                 /\ \A i \in 1..N : r.data[IF i <= at THEN i ELSE i + 1] = self.data[i]
        /\ PastesBlock(self) => BlockFits(self, r)
        /\ \A block \in PasteBlocks :
             LET s == [self EXCEPT !.copied_selection = Some(block)]
             IN  BlockFits(s, table_press(s, KeyP))

\* p has inserted a row whose fields were padded or cut to the columns.
C34_Witness ==
  /\ TableCommand /\ has(last_cmd.cmd, "paste_row") /\ PastesRow(self)
  /\ in_data(self, self.currentRow, self.currentColumn)
  /\ self.data[self.currentRow + 1] # paste_fields(self)
  /\ Len(self.data[self.currentRow + 1]) = Len(self.columns)

\* ---------------------------------------------------------------------------
\* The y chord of the table

KeyJ == Ev("j", FALSE)

KeyEscape == Ev("Escape", FALSE)

\* A y is pending in the table with the cursor on a cell of the model.
TableLoneY ==
  /\ TableIdle /\ ~self.edit_mode
  /\ ~self.visual_mode /\ ~self.visual_line_mode
  /\ self.pending_copy /\ ~self.pending_delete
  /\ in_data(self, self.currentRow, self.currentColumn)

\* C35: in the table, with a y pending, a second y copies the current row
\* into the row register; a key that is neither y nor Escape (here j) copies
\* the current cell into the cell register and then does its own command;
\* the timer copies the current cell once the chord has timed out; Escape
\* copies nothing.
C35_LoneYCopiesCell ==
  TableLoneY =>
    LET cell == self.data[self.currentRow + 1][self.currentColumn + 1]
        rj == table_press(self, KeyJ)
        re == table_press(self, KeyEscape)
        rt == settled(Table_check_pending_operations(self))
    IN  /\ self.copy_elapsed <= PendingTimeout =>
             LET ry == table_press(self, KeyY)
             IN  ry.copied_row = Some(self.data[self.currentRow + 1])
                 /\ IsNone(ry.copied_cell) /\ ~ry.pending_copy
        /\ rj.copied_cell = Some(cell) /\ IsNone(rj.copied_row) /\ ~rj.pending_copy
        /\ rj.currentRow = table_press([self EXCEPT !.pending_copy = FALSE], KeyJ).currentRow
        /\ self.copy_elapsed > PendingTimeout =>
             rt.copied_cell = Some(cell) /\ IsNone(rt.copied_row) /\ ~rt.pending_copy
        /\ re.copied_cell = self.copied_cell /\ re.copied_row = self.copied_row
        /\ re.clipboard = self.clipboard /\ ~re.pending_copy

\* ---------------------------------------------------------------------------
\* The on_cell_edit callback

\* C36: in the table a cell paste, which changes one cell, runs the
\* on_cell_edit callback given to the constructor exactly once.
C36_CallbackOnce ==
  (TableNormal /\ ~self.edit_mode /\ ~IsNone(self.copied_cell)
   /\ IsNone(self.copied_selection)) =>
    LET r == Table_handle_key_event(self, KeyP, NoInput)
    IN  /\ r.data[self.currentRow + 1][self.currentColumn + 1] = self.copied_cell[1]
        /\ times(r.cmd, "on_cell_edit") = 1

\* ---------------------------------------------------------------------------
\* The index of item_deleted

\* C37: the item_deleted event of the list's x carries the index the removed
\* item had before the removal and the removed value, the pair that
\* remove_item emits for the same deletion.
C37_DeletedIndex ==
  (ListNormal /\ ~self.edit_mode) =>
    LET r == List_handle_key_event(self, KeyX, NoInput)
    IN  /\ r.deleted = << <<self.currentRow, cursor_item(self)>> >>
        /\ r.deleted = List_remove_item(self, self.currentRow).deleted

\* ---------------------------------------------------------------------------
\* The modes exclude one another

\* C38: under the keyboard and the timer at most one of Search mode and
\* Visual mode is on (in the table, at most one of Visual and VisualLine),
\* the pending delete and the pending copy are never both set, and neither
\* is set in Search mode or in a Visual mode.
C38_ModesExclusive ==
  /\ ~(self.pending_delete /\ self.pending_copy)
  /\ (IsList \/ IsTree) =>
       /\ ~(self.search_mode /\ self.visual_mode)
       /\ (self.pending_delete \/ self.pending_copy)
            => (~self.search_mode /\ ~self.visual_mode)
  /\ IsTable =>
       /\ ~(self.visual_mode /\ self.visual_line_mode)
       /\ (self.pending_delete \/ self.pending_copy)
            => (~self.visual_mode /\ ~self.visual_line_mode)

\* The table is in VisualLine mode, entered by V after a y that was pending.
C38_Witness ==
  /\ TableIdle /\ self.visual_line_mode /\ ~self.visual_mode
  /\ ~self.pending_copy /\ ~IsNone(self.copied_cell)

\* ---------------------------------------------------------------------------
\* A chord broken by another key

\* The widget with both chord flags cleared and nothing else changed.
chord_dropped(s) ==
  [s EXCEPT !.pending_delete = FALSE, !.delete_elapsed = 0,
            !.pending_copy = FALSE, !.copy_elapsed = 0]

\* A d or a y is pending and has not timed out, outside every other mode.
ChordRunning ==
  /\ ~self.edit_mode /\ ~self.editing /\ ~self.search_mode /\ ~self.visual_mode
  /\ \/ self.pending_delete /\ self.delete_elapsed <= PendingTimeout
     \/ self.pending_copy /\ self.copy_elapsed <= PendingTimeout

\* The key that completes the running chord.
second_key(s) == IF s.pending_delete THEN "d" ELSE "y"

\* C39: in the list, the multimedia list and the tree, a key that follows the
\* first key of a running delete or copy chord and is neither the chord's
\* second key nor Escape only drops the chord: the model, the view, the
\* cursor, the registers, the clipboard and the modes are as before.
C39_BrokenChord ==
  /\ (IsList /\ ChordRunning) =>
       \A e \in ListKeys :
         (e.key # second_key(self) /\ e.key # "Escape")
           => press(self, e) = chord_dropped(self)
  /\ (TreeIdle /\ ChordRunning) =>
       \A e \in TreeKeys, ub \in UBOutcomes :
         (e.key # second_key(self) /\ e.key # "Escape")
           => tree_settled(Tree_handle_key_event(self, e,
                [accepted |-> TRUE, value |-> <<"b">>, ub |-> ub])) = chord_dropped(self)

\* x has just been pressed in the list after the first key of a chord and
\* did nothing but drop the chord: both items are still there.
C39_Witness ==
  /\ ListNormal /\ ~self.edit_mode
  /\ last_cmd = [ev |-> <<"x">>, cmd |-> <<>>]
  /\ IsNone(self.copied_item) /\ Len(self.items) = 2

====
